---- MODULE Spec2Model ----
(***************************************************************************)
(* Task manager backend (Express + PostgreSQL + JWT).                      *)
(*                                                                         *)
(* The model is the REST API seen at the store: the users and tasks        *)
(* tables, the wall clock that decides token expiry, and the last request  *)
(* with its response.  One action is one HTTP request handled to the end   *)
(* (middleware, handler, SQL statement, response).                         *)
(*                                                                         *)
(* JavaScript values are encoded as sequences of string tokens: a text is  *)
(* the sequence of its characters, and undefined / null / true / false are *)
(* one-element sequences holding a marker no character equals.             *)
(***************************************************************************)
EXTENDS Integers, Sequences, FiniteSets, TLC

(***************************************************************************)
(* Bounds of the model.                                                    *)
(***************************************************************************)
MaxUsers == 2
MaxTasks == 2
MaxTime == 7
MaxToggles == 2
MaxShown == 2
MaxDashboardTasks == 40
MaxCalls == 3
MaxRegisters == 2

(***************************************************************************)
(* Program constants.                                                      *)
(***************************************************************************)
\* jwt.sign(..., { expiresIn: "7d" }): lifetime of a token, in days
TokenLifetime == 7

(***************************************************************************)
(* JavaScript values.                                                      *)
(***************************************************************************)
Undefined == <<"<undefined>">>
Null == <<"<null>">>
JTrue == <<"<true>">>
JFalse == <<"<false>">>

\* !v is false exactly for these
Truthy(v) == v \notin {Undefined, Null, JFalse, <<>>}

\* a || b
OrElse(a, b) == IF Truthy(a) THEN a ELSE b

\* node-postgres sends undefined as NULL
PgParam(v) == IF v = Undefined THEN Null ELSE v

\* COALESCE(p, old)
Coalesce(p, old) == IF p = Null THEN old ELSE p

(***************************************************************************)
(* Texts: String.prototype.trim and toLowerCase over the model's alphabet. *)
(***************************************************************************)
LowerChar(c) == IF c = "A" THEN "a" ELSE IF c = "B" THEN "b" ELSE c

ToLowerCase(s) == [i \in 1..Len(s) |-> LowerChar(s[i])]

RECURSIVE TrimStart(_)
TrimStart(s) == IF s # <<>> /\ Head(s) = " " THEN TrimStart(Tail(s)) ELSE s

RECURSIVE TrimEnd(_)
TrimEnd(s) ==
  IF s # <<>> /\ s[Len(s)] = " " THEN TrimEnd(SubSeq(s, 1, Len(s) - 1)) ELSE s

Trim(s) == TrimEnd(TrimStart(s))

\* a normalization that forgets the case
normalizeEmailTrimOnly(email) == Trim(email)

normalizeEmail(email) == ToLowerCase(Trim(email))

(***************************************************************************)
(* bcrypt: the stored credential is a one-way image of the password.       *)
(***************************************************************************)
BcryptHash(password) == <<"$2a$10$">> \o password

BcryptCompare(password, hash) == hash = BcryptHash(password)

(***************************************************************************)
(* State.                                                                  *)
(*   users   rows of table users: [id, name, email, password]              *)
(*   tasks   rows of table tasks: [id, user_id, title, description,        *)
(*           due_date, priority, completed, created_at]                    *)
(*   now     wall clock, in days                                           *)
(*   uuids   number of task ids drawn from uuidv4 so far                   *)
(*   dbClock value of NOW() at the last insert into tasks                  *)
(*   hist    history: per task id, the completed flag as last written by   *)
(*           create or update, and the successful toggles since then       *)
(*   resp    the last request and its response                             *)
(*   view    the client: the task array a page holds, the search text, the *)
(*           filters and the day it renders on, and what it then shows     *)
(***************************************************************************)
VARIABLES users, tasks, now, uuids, dbClock, hist, resp, view

vars == <<users, tasks, now, uuids, dbClock, hist, resp, view>>

UserIds == 1..MaxUsers
TaskIds == 1..MaxTasks

\* req.user when the middleware has not set it; also a missing id claim or param
NoId == 0

(***************************************************************************)
(* Session tokens (jsonwebtoken).                                          *)
(*   form  "object": a JWT whose payload is a JSON object                  *)
(*         "string": a JWT whose payload is a bare string                  *)
(*         "garbage": not a JWT at all                                     *)
(*   key   the key the signature was made with                             *)
(***************************************************************************)
JwtSecret == "env.jwtSecret"

NoToken ==
  [form |-> "garbage", key |-> "", id |-> NoId, name |-> Undefined,
   email |-> Undefined, iat |-> 0, exp |-> 0]

\* the token jwt.sign makes at time iat
SignAt(user, iat) ==
  [form |-> "object", key |-> JwtSecret, id |-> user.id, name |-> user.name,
   email |-> user.email, iat |-> iat, exp |-> iat + TokenLifetime]

\* jwt.sign(user, env.jwtSecret, { expiresIn: "7d" })
createToken(user) == SignAt(user, now)

\* a verification that never looks at the expiry
JwtVerifyIgnoresExpiry(token) ==
  \/ token.form = "garbage"
  \/ token.key # JwtSecret

\* jwt.verify(token, env.jwtSecret) throws on a malformed token, a signature
\* made with another key, and an expired token
JwtVerifyThrows(token) ==
  \/ token.form = "garbage"
  \/ token.key # JwtSecret
  \/ now >= token.exp

PublicUser(u) == [id |-> u.id, name |-> u.name, email |-> u.email]

NoUser == [id |-> NoId, name |-> Undefined, email |-> Undefined]

(***************************************************************************)
(* Authorization header: "" when absent, else the text split at spaces:    *)
(* its first word, the number of words and the word that follows the       *)
(* scheme.                                                                 *)
(***************************************************************************)
NoHeader == [scheme |-> "", words |-> 0, token |-> NoToken]

Bearer(token) == [scheme |-> "Bearer", words |-> 2, token |-> token]

\* authHeader.startsWith("Bearer ")
StartsWithBearer(h) == h.scheme = "Bearer" /\ h.words >= 2

(***************************************************************************)
(* Responses.                                                              *)
(***************************************************************************)
EmptyBody == [message |-> "", rows |-> <<>>, user |-> NoUser, token |-> NoToken]

\* a request body with no field
NoBody ==
  [name |-> Undefined, email |-> Undefined, password |-> Undefined,
   title |-> Undefined, description |-> Undefined, dueDate |-> Undefined,
   priority |-> Undefined, completed |-> Undefined, userId |-> NoId]

\* op: the route; user: req.user.id as set by the middleware; id: the :id
\* parameter (the new id for a create); req: the request body
Reply(op, status, user, id, req, body) ==
  [op |-> op, status |-> status, user |-> user, id |-> id, req |-> req,
   body |-> body]

\* an error answered without a body
MessageNotSent(m) == EmptyBody

\* res.status(...).json({ message: m })
Message(m) == [EmptyBody EXCEPT !.message = m]

\* middleware authenticate: the status it answers with (0 when it calls
\* next()), the message, and req.user
authenticate(h) ==
  IF h.scheme = "" \/ ~StartsWithBearer(h)
  THEN [status |-> 401, message |-> "Unauthorized", user |-> NoUser]
  ELSE IF h.words # 2
  THEN [status |-> 401, message |-> "Unauthorized", user |-> NoUser]
  ELSE IF JwtVerifyThrows(h.token)
  THEN [status |-> 401, message |-> "Invalid token", user |-> NoUser]
  ELSE IF h.token.form = "string"
  THEN [status |-> 401, message |-> "Invalid token", user |-> NoUser]
  ELSE IF h.token.id = NoId \/ ~Truthy(h.token.email) \/ ~Truthy(h.token.name)
  THEN [status |-> 401, message |-> "Invalid token", user |-> NoUser]
  ELSE [status |-> 0, message |-> "",
        user |-> [id |-> h.token.id, name |-> h.token.name,
                  email |-> h.token.email]]

\* a client that has rendered nothing yet
NoGroups ==
  [Today |-> <<>>, ThisWeek |-> <<>>, ThisMonth |-> <<>>, Later |-> <<>>,
   NoDate |-> <<>>]

NoStats == [total |-> 0, completed |-> 0, pending |-> 0, highPriority |-> 0]

\* the App component before it is mounted: no token, no user, nothing stored
\* or shown, no profile request in flight
NoApp ==
  [authToken |-> NoToken, currentUser |-> NoUser, storedToken |-> NoToken,
   storedUser |-> NoUser, isLoadingSession |-> FALSE, currentView |-> "tasks",
   theme |-> "light", storedTheme |-> "light",
   fetches |-> {}, mounting |-> FALSE, screen |-> "none", content |-> "none"]

\* a register request the server has not begun to handle
NoRegister ==
  [pc |-> "idle", name |-> Undefined, email |-> Undefined,
   password |-> Undefined, status |-> 0]

NoView ==
  [page |-> "none", version |-> "frontend", tasks |-> <<>>,
   searchQuery |-> <<>>,
   priorityFilter |-> <<"all">>, filter |-> "all", today |-> <<1970, 1, 1>>,
   west |-> FALSE, passed |-> <<>>, shown |-> <<>>, groups |-> NoGroups,
   stats |-> NoStats, completionPercent |-> 0, dueToday |-> 0,
   nextDueTask |-> <<>>, app |-> NoApp, isLoading |-> FALSE, error |-> "",
   calls |-> {}, replies |-> {}, sent |-> 0,
   registers |-> [n \in 1..MaxRegisters |-> NoRegister]]

Init ==
  /\ users = {}
  /\ tasks = {}
  /\ now = 0
  /\ uuids = 0
  /\ dbClock = 0
  /\ hist = [i \in TaskIds |-> [base |-> FALSE, n |-> 0]]
  /\ resp = Reply("none", 0, NoId, NoId, NoBody, EmptyBody)
  /\ view = NoView

\* INSERT INTO users: id is the primary key and email is UNIQUE
InsertUserThrows(row) ==
  \E u \in users : u.id = row.id \/ u.email = row.email

(***************************************************************************)
(* POST /api/auth/register                                                 *)
(***************************************************************************)
Register(name, email, password) ==
  /\ UNCHANGED <<tasks, now, uuids, dbClock, hist, view>>
  /\ LET req == [NoBody EXCEPT !.name = name, !.email = email,
                               !.password = password]
     IN
     IF ~Truthy(name) \/ ~Truthy(email) \/ ~Truthy(password)
     THEN /\ resp' = Reply("register", 400, NoId, NoId, req,
                           Message("Name, email, and password required"))
          /\ UNCHANGED users
     ELSE LET cleanEmail == normalizeEmail(email)
              existing == {u \in users : u.email = cleanEmail}
              userId == Cardinality(users) + 1
              row == [id |-> userId, name |-> Trim(name), email |-> cleanEmail,
                      password |-> BcryptHash(password)]
          IN IF existing # {}
             THEN /\ resp' = Reply("register", 409, NoId, NoId, req,
                                   Message("Email already registered"))
                  /\ UNCHANGED users
             ELSE IF InsertUserThrows(row)
             THEN /\ resp' = Reply("register", 500, NoId, NoId, req,
                                   Message("Failed to create account"))
                  /\ UNCHANGED users
             ELSE /\ Cardinality(users) < MaxUsers
                  /\ users' = users \cup {row}
                  /\ resp' = Reply("register", 201, NoId, NoId, req,
                                   [EmptyBody EXCEPT
                                      !.user = PublicUser(row),
                                      !.token = createToken(PublicUser(row))])

(***************************************************************************)
(* POST /api/auth/login                                                    *)
(***************************************************************************)
\* a reply that tells a wrong password from an unknown email
WrongPasswordReplyDistinct(req) ==
  Reply("login", 401, NoId, NoId, req, Message("Incorrect password"))

\* the reply when bcrypt.compare fails
WrongPasswordReply(req) ==
  Reply("login", 401, NoId, NoId, req, Message("Invalid email or password"))

\* the handler's answer to a login request when table users holds rows U
LoginResponseIn(U, email, password) ==
  LET req == [NoBody EXCEPT !.email = email, !.password = password]
  IN
  IF ~Truthy(email) \/ ~Truthy(password)
  THEN Reply("login", 400, NoId, NoId, req,
             Message("Email and password required"))
  ELSE LET cleanEmail == normalizeEmail(email)
           result == {u \in U : u.email = cleanEmail}
       IN IF result = {}
          THEN Reply("login", 401, NoId, NoId, req,
                     Message("Invalid email or password"))
          ELSE LET user == CHOOSE u \in result : TRUE
               IN IF ~BcryptCompare(password, user.password)
                  THEN WrongPasswordReply(req)
                  ELSE Reply("login", 200, NoId, NoId, req,
                             [EmptyBody EXCEPT
                                !.user = PublicUser(user),
                                !.token = createToken(PublicUser(user))])

LoginResponse(email, password) == LoginResponseIn(users, email, password)

Login(email, password) ==
  /\ resp' = LoginResponse(email, password)
  /\ UNCHANGED <<users, tasks, now, uuids, dbClock, hist, view>>

(***************************************************************************)
(* GET /api/auth/me: authenticate, then the handler verifies again.        *)
(***************************************************************************)
Me(h) ==
  /\ UNCHANGED <<users, tasks, now, uuids, dbClock, hist, view>>
  /\ LET auth == authenticate(h)
     IN IF auth.status # 0
        THEN resp' = Reply("me", auth.status, NoId, NoId, NoBody, Message(auth.message))
        ELSE IF h.scheme = "" \/ h.words # 2
        THEN resp' = Reply("me", 401, auth.user.id, NoId, NoBody, Message("Unauthorized"))
        ELSE IF JwtVerifyThrows(h.token) \/ h.token.form = "string"
        THEN resp' = Reply("me", 401, auth.user.id, NoId, NoBody, Message("Invalid token"))
        ELSE IF h.token.id = NoId \/ ~Truthy(h.token.email)
                \/ ~Truthy(h.token.name)
        THEN resp' = Reply("me", 401, auth.user.id, NoId, NoBody, Message("Invalid token"))
        ELSE resp' = Reply("me", 200, auth.user.id, NoId, NoBody,
                           [EmptyBody EXCEPT !.user =
                              [id |-> h.token.id, name |-> h.token.name,
                               email |-> h.token.email]])

(***************************************************************************)
(* Calendar dates.  A DATE is <<year, month, day>>; the texts the clients  *)
(* send are YYYY-MM-DD, held as one token.                                 *)
(***************************************************************************)
DateTexts == {<<"2025-01-10">>, <<"2025-02-03">>}

\* $3::date
CastDate(p) ==
  IF p = Null THEN Null
  ELSE IF p = <<"2025-01-10">> THEN <<2025, 1, 10>>
  ELSE <<2025, 2, 3>>

\* TO_CHAR(due_date, 'YYYY-MM-DD')
ToChar(d) ==
  IF d = Null THEN Null
  ELSE IF d = <<2025, 1, 10>> THEN <<"2025-01-10">>
  ELSE <<"2025-02-03">>

\* a JSON boolean as a PostgreSQL parameter
PgBool(v) == IF v = JTrue THEN TRUE ELSE FALSE

(***************************************************************************)
(* Table tasks.                                                            *)
(***************************************************************************)
\* the RETURNING / SELECT column list
Returning(t) ==
  [id |-> t.id, title |-> t.title, description |-> t.description,
   dueDate |-> ToChar(t.due_date), priority |-> t.priority,
   completed |-> t.completed, createdAt |-> t.created_at]

\* a WHERE clause that forgets the id
OwnedByUserOnly(id, userId) == {t \in tasks : t.user_id = userId}

\* WHERE id = $1 AND user_id = $2
OwnedBy(id, userId) == {t \in tasks : t.id = id /\ t.user_id = userId}

\* ORDER BY created_at DESC
RECURSIVE OrderByCreatedAtDesc(_)
OrderByCreatedAtDesc(S) ==
  IF S = {} THEN <<>>
  ELSE LET first == CHOOSE t \in S : \A o \in S : o.created_at <= t.created_at
       IN <<first>> \o OrderByCreatedAtDesc(S \ {first})

Rows(seq) == [EmptyBody EXCEPT !.rows = seq]

(***************************************************************************)
(* GET /api/tasks                                                          *)
(***************************************************************************)
\* a SELECT without the owner filter
SelectAllTasks(userId) == tasks

\* WHERE user_id = $1
SelectTasks(userId) == {t \in tasks : t.user_id = userId}

\* the handler, whatever the client does meanwhile
HandleGetTasks(h) ==
  /\ UNCHANGED <<users, tasks, now, uuids, dbClock, hist>>
  /\ LET auth == authenticate(h)
     IN IF auth.status # 0
        THEN resp' = Reply("list", auth.status, NoId, NoId, NoBody, Message(auth.message))
        ELSE LET userId == auth.user.id
                 sorted == OrderByCreatedAtDesc(SelectTasks(userId))
             IN resp' = Reply("list", 200, userId, NoId, NoBody,
                              Rows([i \in 1..Len(sorted) |-> Returning(sorted[i])]))

GetTasks(h) == HandleGetTasks(h) /\ UNCHANGED view

(***************************************************************************)
(* POST /api/tasks                                                         *)
(***************************************************************************)
\* an INSERT that passes the priority of the body as it comes
InsertedTaskNoDefault(taskId, userId, body) ==
  [id |-> taskId, user_id |-> userId, title |-> body.title,
   description |-> OrElse(body.description, Null),
   due_date |-> CastDate(OrElse(body.dueDate, Null)),
   priority |-> PgParam(body.priority),
   completed |-> FALSE, created_at |-> dbClock + 1]

\* the row INSERT INTO tasks stores; completed takes the column default
InsertedTask(taskId, userId, body) ==
  [id |-> taskId, user_id |-> userId, title |-> body.title,
   description |-> OrElse(body.description, Null),
   due_date |-> CastDate(OrElse(body.dueDate, Null)),
   priority |-> OrElse(body.priority, <<"medium">>),
   completed |-> FALSE, created_at |-> dbClock + 1]

\* the handler, whatever the client does meanwhile
HandleCreateTask(h, body) ==
  /\ UNCHANGED <<users, now>>
  /\ LET auth == authenticate(h)
     IN IF auth.status # 0
        THEN /\ resp' = Reply("create", auth.status, NoId, NoId, body,
                              Message(auth.message))
             /\ UNCHANGED <<tasks, uuids, dbClock, hist>>
        ELSE IF ~Truthy(body.title)
        THEN /\ resp' = Reply("create", 400, auth.user.id, NoId, body,
                              Message("Title is required"))
             /\ UNCHANGED <<tasks, uuids, dbClock, hist>>
        ELSE LET taskId == uuids + 1
                 row == InsertedTask(taskId, auth.user.id, body)
             IN /\ uuids < MaxTasks
                /\ uuids' = uuids + 1
                /\ dbClock' = dbClock + 1
                /\ tasks' = tasks \cup {row}
                /\ hist' = [hist EXCEPT ![taskId] = [base |-> FALSE, n |-> 0]]
                /\ resp' = Reply("create", 201, auth.user.id, taskId, body,
                                 Rows(<<Returning(row)>>))

CreateTask(h, body) == HandleCreateTask(h, body) /\ UNCHANGED view

(***************************************************************************)
(* PUT /api/tasks/:id                                                      *)
(***************************************************************************)
\* a SET list that keeps the due date unless a date is given
UpdateSetKeepsDate(t, body) ==
  [t EXCEPT
     !.title = Coalesce(PgParam(body.title), t.title),
     !.description = Coalesce(PgParam(body.description), t.description),
     !.due_date = Coalesce(CastDate(OrElse(body.dueDate, Null)), t.due_date),
     !.priority = Coalesce(PgParam(body.priority), t.priority),
     !.completed = IF PgParam(body.completed) = Null THEN t.completed
                   ELSE PgBool(body.completed)]

\* the SET list of the UPDATE statement
UpdateSet(t, body) ==
  [t EXCEPT
     !.title = Coalesce(PgParam(body.title), t.title),
     !.description = Coalesce(PgParam(body.description), t.description),
     !.due_date = CastDate(OrElse(body.dueDate, Null)),
     !.priority = Coalesce(PgParam(body.priority), t.priority),
     !.completed = IF PgParam(body.completed) = Null THEN t.completed
                   ELSE PgBool(body.completed)]

\* a handler that trusts the owner id of the request body
UpdateOwnerFromBody(auth, body) == body.userId

\* the owner id the handler filters by
UpdateOwner(auth, body) == auth.user.id

\* the handler, whatever the client does meanwhile
HandleUpdateTask(h, id, body) ==
  /\ UNCHANGED <<users, now, uuids, dbClock>>
  /\ LET auth == authenticate(h)
     IN IF auth.status # 0
        THEN /\ resp' = Reply("update", auth.status, NoId, id, body,
                              Message(auth.message))
             /\ UNCHANGED <<tasks, hist>>
        ELSE LET userId == UpdateOwner(auth, body)
                 matched == OwnedBy(id, userId)
             IN IF matched = {}
                THEN /\ resp' = Reply("update", 404, auth.user.id, id, body,
                                      Message("Task not found"))
                     /\ UNCHANGED <<tasks, hist>>
                ELSE LET t == CHOOSE r \in matched : TRUE
                         row == UpdateSet(t, body)
                     IN /\ tasks' = (tasks \ {t}) \cup {row}
                        /\ hist' = IF PgParam(body.completed) = Null THEN hist
                                   ELSE [hist EXCEPT ![id] =
                                           [base |-> row.completed, n |-> 0]]
                        /\ resp' = Reply("update", 200, auth.user.id, id, body,
                                         Rows(<<Returning(row)>>))

UpdateTask(h, id, body) == HandleUpdateTask(h, id, body) /\ UNCHANGED view

(***************************************************************************)
(* DELETE /api/tasks/:id                                                   *)
(***************************************************************************)
DeleteOwner(auth, owner) == auth.user.id

\* owner: an owner id the client puts in the request; the handler reads
\* none
\* the handler, whatever the client does meanwhile
HandleDeleteTask(h, id, owner) ==
  /\ UNCHANGED <<users, now, uuids, dbClock, hist>>
  /\ LET auth == authenticate(h)
     IN IF auth.status # 0
        THEN /\ resp' = Reply("delete", auth.status, NoId, id, NoBody,
                              Message(auth.message))
             /\ UNCHANGED tasks
        ELSE LET matched == OwnedBy(id, DeleteOwner(auth, owner))
             IN IF matched = {}
                THEN /\ resp' = Reply("delete", 404, auth.user.id, id, NoBody,
                                      Message("Task not found"))
                     /\ UNCHANGED tasks
                ELSE /\ tasks' = tasks \ matched
                     /\ resp' = Reply("delete", 204, auth.user.id, id, NoBody, EmptyBody)

DeleteTask(h, id, owner) == HandleDeleteTask(h, id, owner) /\ UNCHANGED view

(***************************************************************************)
(* PATCH /api/tasks/:id/toggle                                             *)
(***************************************************************************)
\* a toggle that writes the negation of the value the client read
ToggleFromClientCopy(t, clientCopy) == [t EXCEPT !.completed = ~clientCopy]

\* a toggle that marks the task done
ToggleMarkDone(t, clientCopy) == [t EXCEPT !.completed = TRUE]

\* SET completed = NOT completed
ToggleSet(t, clientCopy) == [t EXCEPT !.completed = ~t.completed]

ToggleOwner(auth, owner) == auth.user.id

\* clientCopy: the completed flag in the copy of the task the client holds
\* when it sends the request (it may be stale); owner: an owner id the client
\* puts in the request.  The handler reads neither.
\* the handler, whatever the client does meanwhile
HandleToggle(h, id, clientCopy, owner) ==
  /\ UNCHANGED <<users, now, uuids, dbClock>>
  /\ LET auth == authenticate(h)
     IN IF auth.status # 0
        THEN /\ resp' = Reply("toggle", auth.status, NoId, id, NoBody,
                              Message(auth.message))
             /\ UNCHANGED <<tasks, hist>>
        ELSE LET matched == OwnedBy(id, ToggleOwner(auth, owner))
             IN IF matched = {}
                THEN /\ resp' = Reply("toggle", 404, auth.user.id, id, NoBody,
                                      Message("Task not found"))
                     /\ UNCHANGED <<tasks, hist>>
                ELSE LET t == CHOOSE r \in matched : TRUE
                         row == ToggleSet(t, clientCopy)
                     IN /\ hist[id].n < MaxToggles
                        /\ tasks' = (tasks \ {t}) \cup {row}
                        /\ hist' = [hist EXCEPT ![id].n = @ + 1]
                        /\ resp' = Reply("toggle", 200, auth.user.id, id, NoBody,
                                         Rows(<<Returning(row)>>))

toggleTaskCompletion(h, id, clientCopy, owner) ==
  HandleToggle(h, id, clientCopy, owner) /\ UNCHANGED view

(***************************************************************************)
(* A request whose SQL statement is rejected by the store (connection      *)
(* lost, pool exhausted): the statement changes nothing and the handler's  *)
(* catch block answers.  The checks a handler makes before its first       *)
(* statement come first; me runs no statement.                             *)
(***************************************************************************)
FailureMessage(op) ==
  CASE op = "register" -> "Failed to create account"
    [] op = "login" -> "Failed to login"
    [] op = "list" -> "Failed to load tasks"
    [] op = "create" -> "Failed to create task"
    [] op = "update" -> "Failed to update task"
    [] op = "delete" -> "Failed to delete task"
    [] op = "toggle" -> "Failed to toggle task"

QueryThrows(op, h, id, body) ==
  /\ UNCHANGED <<users, tasks, now, uuids, dbClock, hist, view>>
  /\ LET auth == authenticate(h)
     IN /\ CASE op = "register" ->
                  Truthy(body.name) /\ Truthy(body.email) /\ Truthy(body.password)
             [] op = "login" -> Truthy(body.email) /\ Truthy(body.password)
             [] op = "create" -> auth.status = 0 /\ Truthy(body.title)
             [] OTHER -> auth.status = 0
        /\ resp' = Reply(op, 500,
                         IF op \in {"register", "login"} THEN NoId
                         ELSE auth.user.id,
                         id, body, Message(FailureMessage(op)))

(***************************************************************************)
(* Time passes.  The clock moves in steps of one token lifetime, so a      *)
(* token is presented either on the day it was issued or on the day it     *)
(* expires.                                                                *)
(***************************************************************************)
Tick ==
  /\ now + TokenLifetime <= MaxTime
  /\ now' = now + TokenLifetime
  /\ UNCHANGED <<users, tasks, uuids, dbClock, hist, resp, view>>

(***************************************************************************)
(* The requests the clients send.                                          *)
(***************************************************************************)
\* the tokens register and login have handed out so far: users are never
\* changed or removed, and login issues a token for a user at any time
IssuedTokens ==
  {SignAt(PublicUser(u), iat) :
     u \in users, iat \in {d \in 0..now : d % TokenLifetime = 0}}

\* the ones handed out today
FreshTokens == {t \in IssuedTokens : t.iat = now}

\* tokens nobody was issued: signed with another key, not a JWT, a string
\* payload, no id claim
ForgedTokens ==
  {[t EXCEPT !.key = "attacker"] : t \in FreshTokens}
    \cup {NoToken,
          [NoToken EXCEPT !.form = "string", !.key = JwtSecret,
                          !.exp = MaxTime + TokenLifetime],
          [NoToken EXCEPT !.form = "object", !.key = JwtSecret,
                          !.name = <<"n">>, !.email = <<"a">>,
                          !.exp = MaxTime + TokenLifetime]}

\* what a client holding an issued token sends, or a client holding none
ClientHeaders == {NoHeader} \cup {Bearer(t) : t \in IssuedTokens}

\* every header the gate is tried with
Headers ==
  ClientHeaders
    \cup {Bearer(t) : t \in ForgedTokens}
    \cup {[Bearer(t) EXCEPT !.scheme = "Basic"] : t \in FreshTokens}
    \cup {[Bearer(t) EXCEPT !.words = 3] : t \in FreshTokens}

\* owner ids a client may put in a request
OwnerInputs == UserIds

Body(title, description, dueDate, priority, completed, userId) ==
  [NoBody EXCEPT !.title = title, !.description = description,
                 !.dueDate = dueDate, !.priority = priority,
                 !.completed = completed, !.userId = userId]

(***************************************************************************)
(* Spec: the task store.  Two accounts, every task operation, clients      *)
(* that hold the tokens they were issued.                                  *)
(***************************************************************************)
Names == {Undefined, <<"n">>}
Emails == {<<"A">>, <<"b">>}

CreateBodies ==
  {Body(t, Undefined, d, Undefined, Undefined, NoId) :
     t \in {Undefined, <<>>, <<"a">>}, d \in {Undefined, <<"2025-01-10">>}}

UpdateBodies ==
  {Body(<<"b">>, Undefined, Undefined, Undefined, JTrue, o) : o \in OwnerInputs}

Next ==
  \/ \E name \in Names, email \in Emails : Register(name, email, <<"p">>)
  \/ \E h \in ClientHeaders : GetTasks(h)
  \/ \E h \in ClientHeaders, body \in CreateBodies : CreateTask(h, body)
  \/ \E h \in ClientHeaders, id \in TaskIds, body \in UpdateBodies :
       UpdateTask(h, id, body)
  \/ \E h \in ClientHeaders, id \in TaskIds, owner \in OwnerInputs :
       DeleteTask(h, id, owner)
  \/ \E h \in ClientHeaders, id \in TaskIds, clientCopy \in BOOLEAN,
        owner \in OwnerInputs :
       toggleTaskCompletion(h, id, clientCopy, owner)

Spec == Init /\ [][Next]_vars

(***************************************************************************)
(* SpecAuth: the auth routes, with names, emails and passwords that are    *)
(* missing, empty, blank, padded or in another case.                       *)
(***************************************************************************)
AuthNames == {Undefined, <<"n">>, <<" ">>}
AuthEmails == {<<>>, <<"A">>, <<"a">>, <<"a", " ">>, <<"b">>, <<" ">>}
AuthPasswords == {Undefined, <<"p">>, <<"q">>}

NextAuth ==
  \/ \E name \in AuthNames, email \in AuthEmails, password \in AuthPasswords :
       Register(name, email, password)
  \/ \E email \in AuthEmails, password \in AuthPasswords :
       Login(email, password)
  \/ \E h \in Headers : Me(h)
  \/ Tick

SpecAuth == Init /\ [][NextAuth]_vars

(***************************************************************************)
(* SpecGate: the protected routes, tried with every header while time      *)
(* passes; one of the accounts may have a blank name.                      *)
(***************************************************************************)
GateNames == {<<"n">>, <<" ">>}

GateCreateBodies ==
  {Body(<<"a">>, Undefined, Undefined, Undefined, Undefined, NoId)}

GateUpdateBodies ==
  {Body(<<"b">>, Undefined, Undefined, Undefined, Undefined, NoId)}

\* the task the requests name: the first one created
GateIds == {t \in TaskIds : \A o \in TaskIds : t <= o}

\* a request to a protected route with header h
ProtectedRequest(h) ==
  \/ Me(h)
  \/ GetTasks(h)
  \/ \E body \in GateCreateBodies : CreateTask(h, body)
  \/ \E id \in GateIds, body \in GateUpdateBodies : UpdateTask(h, id, body)
  \/ \E id \in GateIds : DeleteTask(h, id, NoId)
  \/ \E id \in GateIds : toggleTaskCompletion(h, id, FALSE, NoId)

NextGate ==
  \/ \E name \in GateNames, email \in Emails : Register(name, email, <<"p">>)
  \/ \E h \in Headers : ProtectedRequest(h)
  \/ Tick

SpecGate == Init /\ [][NextGate]_vars

(***************************************************************************)
(* SpecUpdate: partial updates.  Tasks are created with or without a       *)
(* description, a due date and a priority, and updated with bodies that    *)
(* give or omit each field.                                                *)
(***************************************************************************)
RichCreateBodies ==
  {Body(<<"a">>, Undefined, Undefined, Undefined, Undefined, NoId),
   Body(<<"a">>, <<"d">>, <<"2025-01-10">>, <<"high">>, Undefined, NoId)}

\* the empty body and the bodies that give one field
RichUpdateBodies ==
  {Body(Undefined, Undefined, Undefined, Undefined, Undefined, NoId),
   Body(<<"b">>, Undefined, Undefined, Undefined, Undefined, NoId),
   Body(Undefined, <<"e">>, Undefined, Undefined, Undefined, NoId),
   Body(Undefined, Undefined, <<>>, Undefined, Undefined, NoId),
   Body(Undefined, Undefined, <<"2025-02-03">>, Undefined, Undefined, NoId),
   Body(Undefined, Undefined, Undefined, <<"low">>, Undefined, NoId),
   Body(Undefined, Undefined, Undefined, Undefined, JTrue, NoId)}

NextUpdate ==
  \/ \E email \in Emails : Register(<<"n">>, email, <<"p">>)
  \/ \E h \in ClientHeaders : GetTasks(h)
  \/ \E h \in ClientHeaders, body \in RichCreateBodies : CreateTask(h, body)
  \/ \E h \in ClientHeaders, id \in GateIds, body \in RichUpdateBodies :
       UpdateTask(h, id, body)

SpecUpdate == Init /\ [][NextUpdate]_vars

(***************************************************************************)
(* SpecInput: what the handlers let into the store.  Create and update     *)
(* bodies with a title that is missing, empty or present and a priority    *)
(* that is missing, one of the three levels or some other text.            *)
(***************************************************************************)
InputCreateBodies ==
  {Body(t, Undefined, Undefined, p, Undefined, NoId) :
     t \in {Undefined, <<>>, <<"a">>}, p \in {Undefined, <<"urgent">>}}

InputUpdateBodies ==
  {Body(<<>>, Undefined, Undefined, Undefined, Undefined, NoId),
   Body(Undefined, Undefined, Undefined, <<"low">>, Undefined, NoId)}

NextInput ==
  \/ \E email \in Emails : Register(<<"n">>, email, <<"p">>)
  \/ \E h \in ClientHeaders, body \in InputCreateBodies : CreateTask(h, body)
  \/ \E h \in ClientHeaders, id \in TaskIds, body \in InputUpdateBodies :
       UpdateTask(h, id, body)

SpecInput == Init /\ [][NextInput]_vars

(***************************************************************************)
(* SpecErrors: every route with requests that fail: fields missing, a      *)
(* mailbox taken, wrong credentials, no token or a bad one, a task that    *)
(* is not the caller's, a statement the store rejects.                     *)
(***************************************************************************)
ErrNames == {Undefined, <<"n">>}
ErrEmails == {<<>>, <<"a">>, <<"B">>}
ErrPasswords == {Undefined, <<"p">>}

ErrHeaders == ClientHeaders \cup {Bearer(NoToken)}

ErrCreateBodies ==
  {Body(t, Undefined, Undefined, Undefined, Undefined, NoId) :
     t \in {Undefined, <<"a">>}}

\* the requests a statement may fail in: route, :id parameter, body
FailingRequests ==
  {<<"register", NoId, [NoBody EXCEPT !.name = n, !.email = e, !.password = p]>> :
     n \in ErrNames, e \in ErrEmails, p \in {<<"p">>}}
    \cup {<<"login", NoId, [NoBody EXCEPT !.email = e, !.password = <<"p">>]>> :
            e \in ErrEmails}
    \cup {<<"list", NoId, NoBody>>}
    \cup {<<"create", NoId, b>> : b \in ErrCreateBodies}
    \cup {<<"update", id, b>> : id \in GateIds, b \in GateUpdateBodies}
    \cup {<<op, id, NoBody>> : op \in {"delete", "toggle"}, id \in GateIds}

NextErrors ==
  \/ \E name \in ErrNames, email \in ErrEmails, password \in ErrPasswords :
       Register(name, email, password)
  \/ \E email \in ErrEmails, password \in ErrPasswords \cup {<<"q">>} :
       Login(email, password)
  \/ \E h \in ErrHeaders : Me(h)
  \/ \E h \in ErrHeaders : GetTasks(h)
  \/ \E h \in ErrHeaders, body \in ErrCreateBodies : CreateTask(h, body)
  \/ \E h \in ErrHeaders, id \in GateIds, body \in GateUpdateBodies :
       UpdateTask(h, id, body)
  \/ \E h \in ErrHeaders, id \in GateIds : DeleteTask(h, id, NoId)
  \/ \E h \in ErrHeaders, id \in GateIds :
       toggleTaskCompletion(h, id, FALSE, NoId)
  \/ \E h \in ErrHeaders, r \in FailingRequests : QueryThrows(r[1], h, r[2], r[3])

SpecErrors == Init /\ [][NextErrors]_vars

(***************************************************************************)
(* The client's calendar.  A Date at local midnight is held as its time    *)
(* value counted in days; -1 stands for null and for an Invalid Date.      *)
(***************************************************************************)
NoDay == -1

IsLeap(y) == (y % 4 = 0 /\ y % 100 # 0) \/ y % 400 = 0

DaysInMonth(y, m) ==
  IF m = 2 THEN (IF IsLeap(y) THEN 29 ELSE 28)
  ELSE IF m \in {4, 6, 9, 11} THEN 30 ELSE 31

RECURSIVE DaysBeforeMonth(_, _)
DaysBeforeMonth(y, m) ==
  IF m = 1 THEN 0 ELSE DaysBeforeMonth(y, m - 1) + DaysInMonth(y, m - 1)

DaysBeforeYear(y) ==
  365 * (y - 1) + (y - 1) \div 4 - (y - 1) \div 100 + (y - 1) \div 400

\* new Date(year, monthIndex, day), setDate, setMonth: the month index
\* counts from 0 and may pass 11, the day may pass the end of the month, and
\* both run over into what follows
MakeDay(year, monthIndex, day) ==
  LET y == year + monthIndex \div 12
      m == (monthIndex % 12) + 1
  IN DaysBeforeYear(y) + DaysBeforeMonth(y, m) + day - 1

(***************************************************************************)
(* Date texts, character by character.                                     *)
(***************************************************************************)
DigitChars == <<"0", "1", "2", "3", "4", "5", "6", "7", "8", "9">>

IsDigit(c) == \E i \in 1..10 : DigitChars[i] = c

DigitValue(c) == (CHOOSE i \in 1..10 : DigitChars[i] = c) - 1

DigitChar(n) == DigitChars[n + 1]

\* TO_CHAR(due_date, 'YYYY-MM-DD') of the date <<y, m, d>>
DateText(date) ==
  LET y == date[1]
      m == date[2]
      d == date[3]
  IN <<DigitChar((y \div 1000) % 10), DigitChar((y \div 100) % 10),
       DigitChar((y \div 10) % 10), DigitChar(y % 10), "-",
       DigitChar(m \div 10), DigitChar(m % 10), "-",
       DigitChar(d \div 10), DigitChar(d % 10)>>

\* value.split(sep)
RECURSIVE SplitFrom(_, _, _, _)
SplitFrom(s, sep, part, parts) ==
  IF s = <<>> THEN Append(parts, part)
  ELSE IF Head(s) = sep THEN SplitFrom(Tail(s), sep, <<>>, Append(parts, part))
  ELSE SplitFrom(Tail(s), sep, Append(part, Head(s)), parts)

Split(s, sep) == SplitFrom(s, sep, <<>>, <<>>)

\* Number(text): 0 for the empty text, the value of a run of digits, NaN (-1)
\* for any other text
NaN == -1

RECURSIVE DigitsValue(_, _)
DigitsValue(s, acc) ==
  IF s = <<>> THEN acc
  ELSE IF ~IsDigit(Head(s)) THEN NaN
  ELSE DigitsValue(Tail(s), 10 * acc + DigitValue(Head(s)))

Number(s) == DigitsValue(Trim(s), 0)

parseDateOnly(value) ==
  IF ~Truthy(value) THEN NoDay
  ELSE LET parts == Split(value, "-")
       IN IF Len(parts) # 3 THEN NoDay
          ELSE LET year == Number(parts[1])
                   month == Number(parts[2])
                   day == Number(parts[3])
               IN IF \/ year = NaN \/ month = NaN \/ day = NaN
                     \/ month < 1 \/ month > 12 \/ day < 1 \/ day > 31
                  THEN NoDay
                  ELSE MakeDay(year, month - 1, day)

\* new Date(text) followed by setHours(0, 0, 0, 0): a date-only text is read
\* as midnight UTC, which west of Greenwich is the evening of the day before
DateAtLocalMidnight(text, west) ==
  LET parts == Split(text, "-")
      year == Number(parts[1])
      month == Number(parts[2])
      day == Number(parts[3])
  IN IF \/ Len(parts) # 3
        \/ year = NaN \/ month = NaN \/ day = NaN
        \/ month < 1 \/ month > 12 \/ day < 1 \/ day > DaysInMonth(year, month)
     THEN NoDay
     ELSE MakeDay(year, month - 1, day) - (IF west THEN 1 ELSE 0)

(***************************************************************************)
(* The tasks page.  view.tasks is the array the page holds, as fetched     *)
(* from GET /api/tasks; view.version tells which of the two copies of      *)
(* TaskList renders it; view.west is TRUE when the browser's time zone is  *)
(* west of Greenwich.                                                      *)
(***************************************************************************)
\* s.includes(q), with a mistake: only the start of s is compared
StartsWith(s, q) == Len(q) <= Len(s) /\ SubSeq(s, 1, Len(q)) = q

\* s.includes(q)
Includes(s, q) ==
  \E i \in 0..(Len(s) - Len(q)) : SubSeq(s, i + 1, i + Len(q)) = q

\* the callback of tasks.filter in TasksPage: search text, then priority
PassesFilters(task, searchQuery, priorityFilter) ==
  LET query == ToLowerCase(searchQuery)
  IN IF /\ Truthy(Trim(searchQuery))
        /\ ~Includes(ToLowerCase(task.title), query)
        /\ ~(/\ Truthy(task.description)
             /\ Includes(ToLowerCase(task.description), query))
     THEN FALSE
     ELSE IF priorityFilter # <<"all">> /\ task.priority # priorityFilter
     THEN FALSE
     ELSE TRUE

getFilteredTasks(list, filter) ==
  CASE filter = "completed" -> SelectSeq(list, LAMBDA t : t.completed)
    [] filter = "pending" -> SelectSeq(list, LAMBDA t : ~t.completed)
    [] OTHER -> list

\* a chain of ranges that leaves out the days before today
BucketPastDropped(task, today, version, west) ==
  LET todayTime == MakeDay(today[1], today[2] - 1, today[3])
      weekFromNow == MakeDay(today[1], today[2] - 1, today[3] + 7)
      monthFromNow == MakeDay(today[1], today[2], today[3])
      dueDate == parseDateOnly(task.dueDate)
  IN IF ~Truthy(task.dueDate) \/ dueDate = NoDay THEN "NoDate"
     ELSE IF dueDate = todayTime THEN "Today"
     ELSE IF dueDate > todayTime /\ dueDate <= weekFromNow THEN "ThisWeek"
     ELSE IF dueDate > weekFromNow /\ dueDate <= monthFromNow THEN "ThisMonth"
     ELSE IF dueDate > monthFromNow THEN "Later"
     ELSE "None"

\* the group the forEach callback of groupedTasks pushes the task to
Bucket(task, today, version, west) ==
  LET todayTime == MakeDay(today[1], today[2] - 1, today[3])
      weekFromNow == MakeDay(today[1], today[2] - 1, today[3] + 7)
      monthFromNow == MakeDay(today[1], today[2], today[3])
  IN IF ~Truthy(task.dueDate) THEN "NoDate"
     ELSE LET dueDate == IF version = "frontend"
                         THEN parseDateOnly(task.dueDate)
                         ELSE DateAtLocalMidnight(task.dueDate, west)
          IN IF version = "frontend" /\ dueDate = NoDay THEN "NoDate"
             ELSE IF dueDate = NoDay THEN "Later"
             ELSE IF dueDate = todayTime THEN "Today"
             ELSE IF dueDate > todayTime /\ dueDate <= weekFromNow
             THEN "ThisWeek"
             ELSE IF dueDate > weekFromNow /\ dueDate <= monthFromNow
             THEN "ThisMonth"
             ELSE "Later"

groupedTasks(filteredTasks, today, version, west) ==
  [Today |->
     SelectSeq(filteredTasks,
               LAMBDA t : Bucket(t, today, version, west) = "Today"),
   ThisWeek |->
     SelectSeq(filteredTasks,
               LAMBDA t : Bucket(t, today, version, west) = "ThisWeek"),
   ThisMonth |->
     SelectSeq(filteredTasks,
               LAMBDA t : Bucket(t, today, version, west) = "ThisMonth"),
   Later |->
     SelectSeq(filteredTasks,
               LAMBDA t : Bucket(t, today, version, west) = "Later"),
   NoDate |->
     SelectSeq(filteredTasks,
               LAMBDA t : Bucket(t, today, version, west) = "NoDate")]

\* one render of the page: TasksPage filters by search text and priority,
\* TaskList by status and then groups
RenderTasksPage ==
  /\ view.page = "tasks"
  /\ LET passed == SelectSeq(view.tasks,
                             LAMBDA t : PassesFilters(t, view.searchQuery,
                                                      view.priorityFilter))
         shown == getFilteredTasks(passed, view.filter)
     IN view' = [view EXCEPT
                   !.passed = passed,
                   !.shown = shown,
                   !.groups = groupedTasks(shown, view.today, view.version,
                                           view.west)]
  /\ UNCHANGED <<users, tasks, now, uuids, dbClock, hist, resp>>

(***************************************************************************)
(* Numbers.  A JavaScript number is an IEEE 754 double: 53 significant     *)
(* bits and an exponent, every operation rounded to the nearest double,    *)
(* ties to the even one.  A double that is not zero is held as             *)
(* [mant, exp]: mant its 53 bits, lowest first, the highest being 1, and   *)
(* its value is mant * 2^(exp - 52).                                       *)
(***************************************************************************)
Zeros(n) == [i \in 1..n |-> 0]

ZeroDouble == [mant |-> Zeros(53), exp |-> 0]

Reverse(s) == [i \in 1..Len(s) |-> s[Len(s) + 1 - i]]

RECURSIVE TwoToThe(_)
TwoToThe(k) == IF k = 0 THEN 1 ELSE 2 * TwoToThe(k - 1)

\* the number written by bits given lowest first (fewer than 31 of them)
RECURSIVE BitsValue(_)
BitsValue(a) ==
  IF Len(a) = 0 THEN 0
  ELSE IF Len(a) = 1 THEN a[1]
  ELSE LET half == Len(a) \div 2
       IN BitsValue(SubSeq(a, 1, half))
            + TwoToThe(half) * BitsValue(SubSeq(a, half + 1, Len(a)))

\* the n lowest bits of v, lowest first
IntBits(v, n) == [i \in 1..n |-> (v \div TwoToThe(i - 1)) % 2]

\* the bits without zeros at the high end
RECURSIVE StripHigh(_)
StripHigh(a) ==
  IF a # <<>> /\ a[Len(a)] = 0 THEN StripHigh(SubSeq(a, 1, Len(a) - 1)) ELSE a

\* a + 1, on bits given lowest first
Increment(a) ==
  LET zero == CHOOSE i \in 1..(Len(a) + 1) :
                /\ i = Len(a) + 1 \/ a[i] = 0
                /\ \A j \in 1..(i - 1) : a[j] = 1
  IN [i \in 1..(IF zero > Len(a) THEN zero ELSE Len(a)) |->
        IF i < zero THEN 0 ELSE IF i = zero THEN 1 ELSE a[i]]

\* the double nearest to bits * 2^(exp - 52), bits being 53 or more with the
\* highest 1; a tie goes to the even one
RoundToDouble(bits, exp) ==
  LET drop == Len(bits) - 53
      kept == SubSeq(bits, drop + 1, Len(bits))
      guard == IF drop = 0 THEN 0 ELSE bits[drop]
      sticky == \E i \in 1..(drop - 1) : bits[i] = 1
      up == guard = 1 /\ (sticky \/ kept[1] = 1)
      sum == IF up THEN Increment(kept) ELSE kept
  IN IF Len(sum) = 54
     THEN [mant |-> SubSeq(sum, 2, 54), exp |-> exp + drop + 1]
     ELSE [mant |-> sum, exp |-> exp + drop]

\* 2^i modulo t
RECURSIVE PowMod(_, _)
PowMod(i, t) ==
  IF i = 0 THEN 1 % t
  ELSE LET half == PowMod(i \div 2, t)
       IN (half * half * (IF i % 2 = 1 THEN 2 ELSE 1)) % t

\* long division: what remains of r / t after i bits
Remains(r, t, i) == (r * PowMod(i, t)) % t

\* long division: the next n bits of r / t, highest first, and what remains
DivStep(r, t, n) ==
  <<[i \in 1..n |-> IF 2 * Remains(r, t, i - 1) >= t THEN 1 ELSE 0],
    Remains(r, t, n)>>

\* the least k with c * 2^k >= t
RECURSIVE Doublings(_, _)
Doublings(c, t) == IF c >= t THEN 0 ELSE 1 + Doublings(2 * c, t)

\* c / t for integers 0 <= c <= t, 0 < t
DoubleDiv(c, t) ==
  IF c = 0 THEN ZeroDouble
  ELSE LET k == Doublings(c, t)
           step == DivStep(c * TwoToThe(k) - t, t, 53)
           \* lowest first: a bit that tells whether anything remains, the
           \* 53 bits of the division, the leading 1
           bits == <<IF step[2] # 0 THEN 1 ELSE 0>> \o Reverse(<<1>> \o step[1])
       IN RoundToDouble(bits, -k - 2)

\* x * 100, the 53 bits of x taken 18 at a time
DoubleTimes100(x) ==
  IF x = ZeroDouble THEN ZeroDouble
  ELSE LET low == 100 * BitsValue(SubSeq(x.mant, 1, 18))
           mid == 100 * BitsValue(SubSeq(x.mant, 19, 36)) + low \div TwoToThe(18)
           high == 100 * BitsValue(SubSeq(x.mant, 37, 53)) + mid \div TwoToThe(18)
           product == IntBits(low % TwoToThe(18), 18)
                        \o IntBits(mid % TwoToThe(18), 18)
                        \o IntBits(high, 24)
       IN RoundToDouble(StripHigh(product), x.exp)

\* Math.round(x) for 0 <= x < 2^31: the nearest integer, a half going up
MathRound(x) ==
  IF x = ZeroDouble \/ x.exp < -1 THEN 0
  ELSE IF x.exp = -1 THEN 1
  ELSE LET fractionBits == 52 - x.exp
       IN BitsValue(SubSeq(x.mant, fractionBits + 1, 53))
            + (IF fractionBits >= 1 THEN x.mant[fractionBits] ELSE 0)

(***************************************************************************)
(* SpecGroups: the tasks page rendered over task arrays whose due dates    *)
(* lie around today: the day before, today, the ends of the week and of    *)
(* the month ranges, and no date.                                          *)
(***************************************************************************)
\* a task as the client holds it
ClientTask(title, description, dueDate, priority, completed) ==
  [id |-> NoId, title |-> title, description |-> description,
   dueDate |-> dueDate, priority |-> priority, completed |-> completed]

\* the arrays of at most n tasks of the given kinds; the id is the position
TaskArrays(kinds, n) ==
  UNION {{[i \in 1..k |-> [list[i] EXCEPT !.id = i]] : list \in [1..k -> kinds]} :
           k \in 0..n}

\* the days the pages are rendered on: before a year's end, and on a 31st
\* followed by a short month
Todays == {<<2024, 12, 24>>, <<2025, 1, 31>>}

CalendarDays ==
  {<<y, m, d>> \in {2024, 2025} \X (1..12) \X (1..31) : d <= DaysInMonth(y, m)}

\* distances in days from today to the due dates tried
DueOffsets == {-1, 0, 7, 8, 29, 31, 32}

DueDatesAround(today) ==
  {date \in CalendarDays :
     MakeDay(date[1], date[2] - 1, date[3])
       - MakeDay(today[1], today[2] - 1, today[3]) \in DueOffsets}

GroupTasks(today) ==
  {ClientTask(<<"a">>, Null, dueDate, <<"medium">>, completed) :
     dueDate \in {Null} \cup {DateText(date) : date \in DueDatesAround(today)},
     completed \in BOOLEAN}

Renderings == {<<"frontend", FALSE>>, <<"vite-project", FALSE>>,
               <<"vite-project", TRUE>>}

InitGroups ==
  /\ users = {}
  /\ tasks = {}
  /\ now = 0
  /\ uuids = 0
  /\ dbClock = 0
  /\ hist = [i \in TaskIds |-> [base |-> FALSE, n |-> 0]]
  /\ resp = Reply("none", 0, NoId, NoId, NoBody, EmptyBody)
  /\ \E today \in Todays, filter \in {"all", "completed", "pending"},
        r \in Renderings :
       \E list \in TaskArrays(GroupTasks(today), MaxShown) :
         view = [NoView EXCEPT !.page = "tasks", !.version = r[1],
                               !.west = r[2], !.tasks = list,
                               !.filter = filter, !.today = today]

NextGroups == RenderTasksPage

SpecGroups == InitGroups /\ [][NextGroups]_vars

(***************************************************************************)
(* SpecSearch: the tasks page rendered with a search text that is empty,   *)
(* blank, in either case, at the start or inside a title or a description. *)
(***************************************************************************)
SearchTitles == {<<"a">>, <<"A", "b">>, <<"b", " ", "a">>}

SearchDescriptions == {Null, <<>>, <<"x", "B">>}

SearchQueries ==
  {<<>>, <<" ">>, <<"a">>, <<"A">>, <<"a", "b">>, <<"B">>, <<" ", "a">>}

SearchTasks ==
  {ClientTask(title, description, Null, <<"medium">>, FALSE) :
     title \in SearchTitles, description \in SearchDescriptions}

InitSearch ==
  /\ users = {}
  /\ tasks = {}
  /\ now = 0
  /\ uuids = 0
  /\ dbClock = 0
  /\ hist = [i \in TaskIds |-> [base |-> FALSE, n |-> 0]]
  /\ resp = Reply("none", 0, NoId, NoId, NoBody, EmptyBody)
  /\ \E query \in SearchQueries, list \in TaskArrays(SearchTasks, MaxShown) :
       view = [NoView EXCEPT !.page = "tasks", !.tasks = list,
                             !.searchQuery = query,
                             !.today = <<2025, 1, 31>>]

NextSearch == RenderTasksPage

SpecSearch == InitSearch /\ [][NextSearch]_vars

(***************************************************************************)
(* The dashboard.                                                          *)
(***************************************************************************)
\* tasks.filter((t) => t.priority === "high" && !t.completed).length
CountHighPending(list) ==
  Len(SelectSeq(list, LAMBDA t : t.priority = <<"high">> /\ ~t.completed))

getStats(list) ==
  [total |-> Len(list),
   completed |-> Len(SelectSeq(list, LAMBDA t : t.completed)),
   pending |-> Len(SelectSeq(list, LAMBDA t : ~t.completed)),
   highPriority |-> CountHighPending(list)]

completionPercent(stats) ==
  IF stats.total > 0
  THEN MathRound(DoubleTimes100(DoubleDiv(stats.completed, stats.total)))
  ELSE 0

\* today.setHours(0, 0, 0, 0); today.getTime()
TodayTime(today) == MakeDay(today[1], today[2] - 1, today[3])

\* the length of tasks.filter(...) of dueToday
dueToday(list, today) ==
  Len(SelectSeq(list,
                LAMBDA t : IF ~Truthy(t.dueDate) \/ t.completed THEN FALSE
                           ELSE LET due == parseDateOnly(t.dueDate)
                                IN IF due = NoDay THEN FALSE
                                   ELSE due = TodayTime(today)))

\* the comparison function given to sort
CompareDue(a, b) ==
  LET dateA == parseDateOnly(a.dueDate)
      dateB == parseDateOnly(b.dueDate)
  IN IF dateA = NoDay /\ dateB = NoDay THEN 0
     ELSE IF dateA = NoDay THEN 1
     ELSE IF dateB = NoDay THEN -1
     ELSE dateA - dateB

\* Array.prototype.sort: stable, each element placed before the first of the
\* sorted ones that compares greater
SortInsert(sorted, x) ==
  LET later == {i \in 1..Len(sorted) : CompareDue(x, sorted[i]) < 0}
      at == IF later = {} THEN Len(sorted) + 1
            ELSE CHOOSE i \in later : \A j \in later : i <= j
  IN SubSeq(sorted, 1, at - 1) \o <<x>> \o SubSeq(sorted, at, Len(sorted))

RECURSIVE SortByDue(_)
SortByDue(list) ==
  IF list = <<>> THEN <<>>
  ELSE SortInsert(SortByDue(SubSeq(list, 1, Len(list) - 1)), list[Len(list)])

\* tasks.filter(...).sort(...)[0]: no element, or the first
nextDueTask(list) ==
  LET sorted == SortByDue(SelectSeq(list,
                            LAMBDA t : Truthy(t.dueDate) /\ ~t.completed))
  IN IF sorted = <<>> THEN <<>> ELSE <<sorted[1]>>

RenderDashboard ==
  /\ view.page = "dashboard"
  /\ LET stats == getStats(view.tasks)
     IN view' = [view EXCEPT !.stats = stats,
                             !.completionPercent = completionPercent(stats),
                             !.dueToday = dueToday(view.tasks, view.today),
                             !.nextDueTask = nextDueTask(view.tasks)]
  /\ UNCHANGED <<users, tasks, now, uuids, dbClock, hist, resp>>

(***************************************************************************)
(* SpecDashboard: the dashboard rendered over arrays of up to              *)
(* MaxDashboardTasks tasks, any number of them completed, completed ones   *)
(* first, and either none or every second one of high priority.            *)
(***************************************************************************)
DashboardArray(total, completed, high) ==
  [i \in 1..total |->
     [ClientTask(<<"a">>, Null, Null,
                 IF high /\ i % 2 = 1 THEN <<"high">> ELSE <<"medium">>,
                 i <= completed) EXCEPT !.id = i]]

InitDashboard ==
  /\ users = {}
  /\ tasks = {}
  /\ now = 0
  /\ uuids = 0
  /\ dbClock = 0
  /\ hist = [i \in TaskIds |-> [base |-> FALSE, n |-> 0]]
  /\ resp = Reply("none", 0, NoId, NoId, NoBody, EmptyBody)
  /\ \E total \in 0..MaxDashboardTasks, high \in BOOLEAN :
       \E completed \in 0..total :
         view = [NoView EXCEPT !.page = "dashboard",
                               !.tasks = DashboardArray(total, completed, high)]

NextDashboard == RenderDashboard

SpecDashboard == InitDashboard /\ [][NextDashboard]_vars

(***************************************************************************)
(* SpecDue: the dashboard rendered over arrays of up to MaxShown tasks,    *)
(* completed or pending, without a due date or due before, on or after     *)
(* today.                                                                  *)
(***************************************************************************)
InitDue ==
  /\ users = {}
  /\ tasks = {}
  /\ now = 0
  /\ uuids = 0
  /\ dbClock = 0
  /\ hist = [i \in TaskIds |-> [base |-> FALSE, n |-> 0]]
  /\ resp = Reply("none", 0, NoId, NoId, NoBody, EmptyBody)
  /\ \E today \in Todays :
       \E list \in TaskArrays(GroupTasks(today), MaxShown) :
         view = [NoView EXCEPT !.page = "dashboard", !.tasks = list,
                               !.today = today]

NextDue == RenderDashboard

SpecDue == InitDue /\ [][NextDue]_vars

(***************************************************************************)
(* The tasks page and the server.  view.calls holds the requests the page  *)
(* has sent and the server has not handled, view.replies the responses     *)
(* the page has not received; a call is numbered by view.sent.  The page   *)
(* holds the tasks as the server returned them.                            *)
(***************************************************************************)
\* TaskFormData
Form(title, description, dueDate, priority) ==
  [title |-> title, description |-> description, dueDate |-> dueDate,
   priority |-> priority]

NoForm == Form(<<>>, <<>>, <<>>, <<>>)

\* the body createTask of the task service sends
createTaskBody(payload) ==
  Body(payload.title, OrElse(payload.description, Null),
       OrElse(payload.dueDate, Null), payload.priority, Undefined, NoId)

\* a service that sends completed: false with every form
updateTaskBodyMarksPending(updates) ==
  Body(updates.title,
       IF updates.description = Undefined THEN Undefined
       ELSE OrElse(updates.description, Null),
       IF updates.dueDate = Undefined THEN Undefined
       ELSE OrElse(updates.dueDate, Null),
       updates.priority, JFalse, NoId)

\* a service that sends the description as the form holds it
updateTaskBodyAsTyped(updates) ==
  Body(updates.title, updates.description,
       IF updates.dueDate = Undefined THEN Undefined
       ELSE OrElse(updates.dueDate, Null),
       updates.priority, Undefined, NoId)

\* the body updateTask of the task service sends
updateTaskBody(updates) ==
  Body(updates.title,
       IF updates.description = Undefined THEN Undefined
       ELSE OrElse(updates.description, Null),
       IF updates.dueDate = Undefined THEN Undefined
       ELSE OrElse(updates.dueDate, Null),
       updates.priority, Undefined, NoId)

Call(n, op, id, form, body, copy, token) ==
  [n |-> n, op |-> op, id |-> id, form |-> form, body |-> body,
   copy |-> copy, token |-> token]

\* setError(null), and a request sent with the token the page was given
SendCall(op, id, form, body, copy, token) ==
  [view EXCEPT !.calls = @ \cup {Call(view.sent + 1, op, id, form, body,
                                      copy, token)},
               !.sent = @ + 1, !.error = ""]

ClientIds == {view.tasks[i].id : i \in 1..Len(view.tasks)}

\* up to the await
handleAddTask(token, formData) ==
  /\ view.page = "tasks"
  /\ view.sent < MaxCalls
  /\ view' = SendCall("create", NoId, formData, createTaskBody(formData),
                      FALSE, token)
  /\ UNCHANGED <<users, tasks, now, uuids, dbClock, hist, resp>>

\* handleEdit of a task the page shows, then the form submitted: up to the
\* await
handleUpdateTask(token, id, formData) ==
  /\ view.page = "tasks"
  /\ view.sent < MaxCalls
  /\ id \in ClientIds
  /\ view' = SendCall("update", id, formData, updateTaskBody(formData),
                      FALSE, token)
  /\ UNCHANGED <<users, tasks, now, uuids, dbClock, hist, resp>>

\* up to the await
handleToggleComplete(token, id) ==
  /\ view.page = "tasks"
  /\ view.sent < MaxCalls
  /\ \E i \in 1..Len(view.tasks) :
       /\ view.tasks[i].id = id
       /\ view' = SendCall("toggle", id, NoForm, NoBody,
                           view.tasks[i].completed, token)
  /\ UNCHANGED <<users, tasks, now, uuids, dbClock, hist, resp>>

\* handleDeleteClick of a task the page shows, then the confirmation: up to
\* the await
handleDeleteConfirm(token, id) ==
  /\ view.page = "tasks"
  /\ view.sent < MaxCalls
  /\ id \in ClientIds
  /\ view' = SendCall("delete", id, NoForm, NoBody, FALSE, token)
  /\ UNCHANGED <<users, tasks, now, uuids, dbClock, hist, resp>>

\* the server handles a request and sends the response
ServerHandles(call) ==
  /\ view.page = "tasks"
  /\ call \in view.calls
  /\ \/ call.op = "list" /\ HandleGetTasks(Bearer(call.token))
     \/ call.op = "create" /\ HandleCreateTask(Bearer(call.token), call.body)
     \/ call.op = "update"
          /\ HandleUpdateTask(Bearer(call.token), call.id, call.body)
     \/ call.op = "toggle"
          /\ HandleToggle(Bearer(call.token), call.id, call.copy, NoId)
     \/ call.op = "delete"
          /\ HandleDeleteTask(Bearer(call.token), call.id, NoId)
  /\ view' = [view EXCEPT !.calls = @ \ {call},
                          !.replies = @ \cup {[call |-> call,
                                               status |-> resp'.status,
                                               body |-> resp'.body]}]

\* prevTasks.map((task) => (task.id === id ? updatedTask : task))
ReplaceTask(list, id, updatedTask) ==
  [i \in 1..Len(list) |-> IF list[i].id = id THEN updatedTask ELSE list[i]]

\* [...prevTasks, newTask]
Added(prevTasks, newTask) == prevTasks \o <<newTask>>

\* handleResponse and the rest of the handler that sent the call
Receive(reply) ==
  /\ view.page = "tasks"
  /\ reply \in view.replies
  /\ LET ok == reply.status \in 200..299
         op == reply.call.op
         rows == reply.body.rows
         message == IF reply.body.message # "" THEN reply.body.message
                    ELSE IF op = "delete" THEN "Failed to delete"
                    ELSE "Request failed"
         rest == [view EXCEPT !.replies = @ \ {reply}]
     IN view' =
          IF ~ok
          THEN [rest EXCEPT !.error = message,
                            !.isLoading = IF op = "list" THEN FALSE ELSE @]
          ELSE CASE op = "list" ->
                      [rest EXCEPT !.tasks = rows, !.isLoading = FALSE]
                 [] op = "create" ->
                      [rest EXCEPT !.tasks = Added(@, rows[1])]
                 [] op \in {"update", "toggle"} ->
                      [rest EXCEPT !.tasks = ReplaceTask(@, reply.call.id, rows[1])]
                 [] OTHER ->
                      [rest EXCEPT !.tasks =
                         SelectSeq(@, LAMBDA task : task.id # reply.call.id)]
  /\ UNCHANGED <<users, tasks, now, uuids, dbClock, hist, resp>>

(***************************************************************************)
(* SpecClient: one signed-in user's tasks page sending up to MaxCalls      *)
(* requests without waiting, the server taking them and the page           *)
(* receiving the responses in any order.                                   *)
(***************************************************************************)
ClientUser == [id |-> 1, name |-> <<"n">>, email |-> <<"a">>]

\* the token the user was registered with
ClientToken == SignAt(ClientUser, 0)

ClientForms ==
  {Form(<<"a">>, description, dueDate, <<"medium">>) :
     description \in {<<>>, <<"d">>}, dueDate \in {<<>>, <<"2025-01-10">>}}

\* the user has registered and the page is mounted: the loadTasks effect has
\* sent its request
InitClient ==
  /\ users = {[id |-> ClientUser.id, name |-> ClientUser.name,
               email |-> ClientUser.email, password |-> BcryptHash(<<"p">>)]}
  /\ tasks = {}
  /\ now = 0
  /\ uuids = 0
  /\ dbClock = 0
  /\ hist = [i \in TaskIds |-> [base |-> FALSE, n |-> 0]]
  /\ resp = Reply("none", 0, NoId, NoId, NoBody, EmptyBody)
  /\ view = [NoView EXCEPT
               !.page = "tasks", !.isLoading = TRUE,
               !.calls = {Call(0, "list", NoId, NoForm, NoBody, FALSE,
                               ClientToken)}]

NextClient ==
  \/ \E formData \in ClientForms : handleAddTask(ClientToken, formData)
  \/ \E id \in TaskIds, formData \in ClientForms :
       handleUpdateTask(ClientToken, id, formData)
  \/ \E id \in TaskIds : handleToggleComplete(ClientToken, id)
  \/ \E id \in TaskIds : handleDeleteConfirm(ClientToken, id)
  \/ \E call \in view.calls : ServerHandles(call)
  \/ \E reply \in view.replies : Receive(reply)

SpecClient == InitClient /\ [][NextClient]_vars

(***************************************************************************)
(* SpecOrder: the tasks page of SpecClient adding tasks without a due date *)
(* and rendering its groups.                                               *)
(***************************************************************************)
OrderForms == {Form(title, <<>>, <<>>, <<"medium">>) : title \in {<<"a">>, <<"b">>}}

NextOrder ==
  \/ \E formData \in OrderForms : handleAddTask(ClientToken, formData)
  \/ \E call \in view.calls : ServerHandles(call)
  \/ \E reply \in view.replies : Receive(reply)
  \/ RenderTasksPage

SpecOrder == InitClient /\ [][NextOrder]_vars

(***************************************************************************)
(* register, statement by statement.  view.registers[n] is the n-th        *)
(* register request: "idle" before the handler starts, "selected" between  *)
(* its SELECT and its INSERT, "done" once answered, with the status.       *)
(***************************************************************************)
\* from the start of the handler to the answer, or to the await of the
\* SELECT when no row has the email
registerSelect(n, name, email, password) ==
  /\ view.page = "server"
  /\ view.registers[n].pc = "idle"
  /\ LET req == [NoBody EXCEPT !.name = name, !.email = email,
                               !.password = password]
         began == [view.registers[n] EXCEPT !.name = name, !.email = email,
                                            !.password = password]
     IN IF ~Truthy(name) \/ ~Truthy(email) \/ ~Truthy(password)
        THEN /\ resp' = Reply("register", 400, NoId, NoId, req,
                              Message("Name, email, and password required"))
             /\ view' = [view EXCEPT !.registers[n] =
                           [began EXCEPT !.pc = "done", !.status = 400]]
        ELSE IF {u \in users : u.email = normalizeEmail(email)} # {}
        THEN /\ resp' = Reply("register", 409, NoId, NoId, req,
                              Message("Email already registered"))
             /\ view' = [view EXCEPT !.registers[n] =
                           [began EXCEPT !.pc = "done", !.status = 409]]
        ELSE /\ resp' = resp
             /\ view' = [view EXCEPT !.registers[n] =
                           [began EXCEPT !.pc = "selected"]]
  /\ UNCHANGED <<users, tasks, now, uuids, dbClock, hist>>

\* from the hash to the answer
registerInsert(n) ==
  /\ view.page = "server"
  /\ view.registers[n].pc = "selected"
  /\ LET r == view.registers[n]
         req == [NoBody EXCEPT !.name = r.name, !.email = r.email,
                               !.password = r.password]
         row == [id |-> Cardinality(users) + 1, name |-> Trim(r.name),
                 email |-> normalizeEmail(r.email),
                 password |-> BcryptHash(r.password)]
     IN IF InsertUserThrows(row)
        THEN \* the INSERT throws: the catch block
             /\ resp' = Reply("register", 500, NoId, NoId, req,
                              Message("Failed to create account"))
             /\ view' = [view EXCEPT !.registers[n].pc = "done",
                                     !.registers[n].status = 500]
             /\ UNCHANGED users
        ELSE /\ Cardinality(users) < MaxUsers
             /\ users' = users \cup {row}
             /\ resp' = Reply("register", 201, NoId, NoId, req,
                              [EmptyBody EXCEPT !.user = PublicUser(row),
                                                !.token = createToken(PublicUser(row))])
             /\ view' = [view EXCEPT !.registers[n].pc = "done",
                                     !.registers[n].status = 201]
  /\ UNCHANGED <<tasks, now, uuids, dbClock, hist>>

(***************************************************************************)
(* SpecRace: MaxRegisters register requests handled at the same time.      *)
(***************************************************************************)
RaceNames == {Undefined, <<"n">>}

RaceEmails == {<<"A">>, <<"a">>, <<"a", " ">>, <<"b">>}

InitRace ==
  /\ users = {}
  /\ tasks = {}
  /\ now = 0
  /\ uuids = 0
  /\ dbClock = 0
  /\ hist = [i \in TaskIds |-> [base |-> FALSE, n |-> 0]]
  /\ resp = Reply("none", 0, NoId, NoId, NoBody, EmptyBody)
  /\ view = [NoView EXCEPT !.page = "server"]

NextRace ==
  \/ \E n \in 1..MaxRegisters, name \in RaceNames, email \in RaceEmails :
       registerSelect(n, name, email, <<"p">>)
  \/ \E n \in 1..MaxRegisters : registerInsert(n)

SpecRace == InitRace /\ [][NextRace]_vars

(***************************************************************************)
(* The App component: the session it holds, what it keeps in local         *)
(* storage, and which page it shows.  null is NoToken for a token and      *)
(* NoUser for a user.  app.fetches holds the tokens of the fetchProfile    *)
(* calls that have not settled; app.mounting holds in the state a page     *)
(* load leaves.                                                            *)
(***************************************************************************)
renderCurrentPageUngated(app) ==
  IF app.currentView \in {"dashboard", "tasks", "calendar"}
  THEN app.currentView
  ELSE "comingSoon"

renderCurrentPage(app) ==
  IF app.authToken = NoToken THEN "none"
  ELSE IF app.currentView \in {"dashboard", "tasks", "calendar"}
  THEN app.currentView
  ELSE "comingSoon"

\* what App returns: the login page alone, or the shell (sidebar, header
\* with the logout button) around renderCurrentPage()
AppRender(app) ==
  IF app.authToken = NoToken /\ ~app.isLoadingSession
  THEN [app EXCEPT !.screen = "login", !.content = "none"]
  ELSE [app EXCEPT !.screen = "shell", !.content = renderCurrentPage(app)]

\* the synchronous part of loadProfile, up to the await
loadProfile(app) ==
  IF app.authToken = NoToken \/ app.currentUser # NoUser THEN app
  ELSE [app EXCEPT !.isLoadingSession = TRUE,
                   !.fetches = @ \cup {app.authToken}]

\* the render that follows a state update, and the loadProfile effect when
\* authToken or currentUser has changed
AfterUpdate(old, new) ==
  LET settled == [new EXCEPT !.mounting = FALSE]
  IN IF old.authToken # new.authToken \/ old.currentUser # new.currentUser
     THEN AppRender(loadProfile(settled))
     ELSE AppRender(settled)

\* the first render of App, its state read from local storage, and its
\* effects
Mounted(storedToken, storedUser, storedTheme) ==
  [AppRender(loadProfile([NoApp EXCEPT !.authToken = storedToken,
                                       !.currentUser = storedUser,
                                       !.storedToken = storedToken,
                                       !.storedUser = storedUser,
                                       !.theme = storedTheme,
                                       !.storedTheme = storedTheme]))
     EXCEPT !.mounting = TRUE]

Logout(app) ==
  [app EXCEPT !.authToken = NoToken, !.currentUser = NoUser,
              !.storedToken = NoToken, !.storedUser = NoUser]

\* the logout button of the header
handleLogout ==
  /\ view.page = "app"
  /\ view.app.screen = "shell"
  /\ view' = [view EXCEPT !.app = AfterUpdate(view.app, Logout(view.app))]
  /\ UNCHANGED <<users, tasks, now, uuids, dbClock, hist, resp>>

\* the login page has received data from register or login
handleAuthSuccess(data) ==
  /\ view.page = "app"
  /\ view.app.screen = "login"
  /\ view' = [view EXCEPT !.app =
                AfterUpdate(view.app,
                            [view.app EXCEPT !.authToken = data.token,
                                             !.currentUser = data.user,
                                             !.storedToken = data.token,
                                             !.storedUser = data.user,
                                             !.isLoadingSession = FALSE])]
  /\ UNCHANGED <<users, tasks, now, uuids, dbClock, hist, resp>>

\* a navigation item of the sidebar
handleViewChange(v) ==
  /\ view.page = "app"
  /\ view.app.screen = "shell"
  /\ v # view.app.currentView
  /\ view' = [view EXCEPT !.app =
                AfterUpdate(view.app, [view.app EXCEPT !.currentView = v])]
  /\ UNCHANGED <<users, tasks, now, uuids, dbClock, hist, resp>>

\* the theme button of the header and of the login page, and the effect that
\* stores the theme
handleToggleTheme ==
  /\ view.page = "app"
  /\ LET theme == IF view.app.theme = "dark" THEN "light" ELSE "dark"
     IN view' = [view EXCEPT !.app =
                   AfterUpdate(view.app, [view.app EXCEPT !.theme = theme,
                                                          !.storedTheme = theme])]
  /\ UNCHANGED <<users, tasks, now, uuids, dbClock, hist, resp>>

\* fetchProfile(token) resolves: GET /api/auth/me has answered 200 with the
\* claims of the token; the rest of the try block and the finally block
FetchProfileResolves(token) ==
  /\ view.page = "app"
  /\ token \in view.app.fetches
  /\ authenticate(Bearer(token)).status = 0
  /\ LET profile == authenticate(Bearer(token)).user
     IN view' = [view EXCEPT !.app =
                   AfterUpdate(view.app,
                               [view.app EXCEPT !.currentUser = profile,
                                                !.storedUser = profile,
                                                !.isLoadingSession = FALSE,
                                                !.fetches = @ \ {token}])]
  /\ UNCHANGED <<users, tasks, now, uuids, dbClock, hist, resp>>

\* fetchProfile(token) rejects, the server having answered 401 or the
\* request having failed: the catch block and the finally block
FetchProfileRejects(token) ==
  /\ view.page = "app"
  /\ token \in view.app.fetches
  /\ view' = [view EXCEPT !.app =
                AfterUpdate(view.app,
                            [Logout(view.app) EXCEPT
                               !.isLoadingSession = FALSE,
                               !.fetches = @ \ {token}])]
  /\ UNCHANGED <<users, tasks, now, uuids, dbClock, hist, resp>>

FetchProfileSettles ==
  \E token \in view.app.fetches :
    FetchProfileResolves(token) \/ FetchProfileRejects(token)

\* the page is loaded again: the component state and the requests in flight
\* are gone, local storage stays
Reload ==
  /\ view.page = "app"
  /\ view' = [view EXCEPT !.app =
                Mounted(view.app.storedToken, view.app.storedUser,
                        view.app.storedTheme)]
  /\ UNCHANGED <<users, tasks, now, uuids, dbClock, hist, resp>>

(***************************************************************************)
(* SpecSession: App loaded with nothing stored, with a token and a user    *)
(* stored as handleAuthSuccess leaves them, or with a token alone as       *)
(* loadProfile expects to find it; the token fresh or expired.             *)
(***************************************************************************)
SessionUser == [id |-> 1, name |-> <<"n">>, email |-> <<"a">>]

\* the accounts the login page may answer with
SessionUsers == {SessionUser, [id |-> 2, name |-> <<"n">>, email |-> <<"b">>]}

SessionStarts == {0, TokenLifetime}

StoredSessions ==
  {<<NoToken, NoUser>>, <<SignAt(SessionUser, 0), SessionUser>>,
   <<SignAt(SessionUser, 0), NoUser>>}

SessionViews == {"dashboard", "tasks", "calendar", "team"}

InitSession ==
  /\ users = {}
  /\ tasks = {}
  /\ now \in SessionStarts
  /\ uuids = 0
  /\ dbClock = 0
  /\ hist = [i \in TaskIds |-> [base |-> FALSE, n |-> 0]]
  /\ resp = Reply("none", 0, NoId, NoId, NoBody, EmptyBody)
  /\ \E stored \in StoredSessions :
       view = [NoView EXCEPT !.page = "app",
                             !.app = Mounted(stored[1], stored[2], "light")]

NextSession ==
  \/ handleLogout
  \/ \E user \in SessionUsers :
       handleAuthSuccess([token |-> SignAt(user, now), user |-> user])
  \/ handleToggleTheme
  \/ \E v \in SessionViews : handleViewChange(v)
  \/ \E token \in view.app.fetches : FetchProfileResolves(token)
  \/ \E token \in view.app.fetches : FetchProfileRejects(token)
  \/ Reload
  \/ Tick

SpecSession == InitSession /\ [][NextSession]_vars

\* every fetchProfile call settles
SpecSessionFair == SpecSession /\ WF_vars(FetchProfileSettles)

(***************************************************************************)
(* Properties of the task store (Spec).                                    *)
(***************************************************************************)
\* the step is a request, answered by resp'
Request == resp' # resp

TaskRow(store, id) == CHOOSE t \in store : t.id = id

Negated(b, n) == IF n % 2 = 0 THEN b ELSE ~b

\* C1: an update, toggle or delete that an authenticated user sends with the
\* id of a task another user owns is answered 404 and changes no task,
\* whatever owner id the request carries.
C1_OwnershipIsolation ==
  [][(/\ Request
      /\ resp'.op \in {"update", "toggle", "delete"}
      /\ resp'.user # NoId
      /\ \E t \in tasks : t.id = resp'.id /\ t.user_id # resp'.user)
     => (resp'.status = 404 /\ tasks' = tasks)]_vars

C1_Witness ==
  /\ resp.op = "update"
  /\ resp.status = 404
  /\ \E t \in tasks :
       /\ t.id = resp.id
       /\ t.user_id # resp.user
       /\ resp.user # NoId
       /\ resp.req.userId = t.user_id

\* C2: after N successful toggles of a task since its completed flag was last
\* written by create or update, the stored flag is that value negated N
\* times, whatever copy of the flag the clients held.
C2_ToggleNoLostUpdate ==
  \A t \in tasks :
    t.completed = Negated(hist[t.id].base, hist[t.id].n)

C2_Witness ==
  /\ resp.op = "toggle"
  /\ resp.status = 200
  /\ hist[resp.id].n = 1
  /\ \E t \in tasks : t.id = resp.id /\ t.completed # hist[t.id].base

\* C9: a list answered 200 holds exactly the caller's tasks, each once, as
\* stored, newest created first.
C9_ListOwnedNewestFirst ==
  (resp.op = "list" /\ resp.status = 200) =>
    LET rows == resp.body.rows
        owned == {t \in tasks : t.user_id = resp.user}
    IN /\ Len(rows) = Cardinality(owned)
       /\ {rows[i] : i \in 1..Len(rows)} = {Returning(t) : t \in owned}
       /\ \A i, j \in 1..Len(rows) :
            i < j => rows[i].createdAt > rows[j].createdAt

C9_Witness ==
  /\ resp.op = "list"
  /\ resp.status = 200
  /\ Len(resp.body.rows) = 2
  /\ resp.body.rows[1].createdAt > resp.body.rows[2].createdAt
  /\ \E i \in 1..2 : resp.body.rows[i].completed

C9_WitnessOthers ==
  /\ resp.op = "list"
  /\ resp.status = 200
  /\ Len(resp.body.rows) = 1
  /\ \E t \in tasks : t.user_id # resp.user

\* C10: a successful toggle negates completed and changes nothing else of
\* the task or of any other task; when the request before it was a
\* successful toggle of the same task, the flag is back at the value it had
\* before the two.
C10_ToggleInverse ==
  [][(Request /\ resp'.op = "toggle" /\ resp'.status = 200) =>
       LET id == resp'.id
           before == TaskRow(tasks, id)
           after == TaskRow(tasks', id)
       IN /\ after = [before EXCEPT !.completed = ~before.completed]
          /\ tasks' \ {after} = tasks \ {before}
          /\ (resp.op = "toggle" /\ resp.status = 200 /\ resp.id = id) =>
               after.completed = Negated(hist[id].base, hist[id].n - 1)]_vars

C10_Witness ==
  /\ resp.op = "toggle"
  /\ resp.status = 200
  /\ hist[resp.id].n = 2
  /\ \E t \in tasks :
       /\ t.id = resp.id
       /\ t.completed = hist[t.id].base
       /\ t.due_date # Null

\* the id was given to a task and no row has it: rows leave the table only
\* by DELETE
Deleted(id) == id \in 1..uuids /\ ~\E t \in tasks : t.id = id

Observed(r) == [status |-> r.status, body |-> r.body]

\* two emails name the same mailbox: equal after trim and lowercase
SameMailbox(e1, e2) == ToLowerCase(Trim(e1)) = ToLowerCase(Trim(e2))

HasAccount(email) == \E u \in users : SameMailbox(u.email, email)

WrongPassword(email, password) ==
  /\ HasAccount(email)
  /\ \A u \in users :
       SameMailbox(u.email, email) => u.password # BcryptHash(password)

\* C6: of two logins with non-empty email and password, one for an email
\* without account and one for an account with a wrong password, the client
\* sees the same status 401 and the same body; and the login with the wrong
\* password is answered as it would be if the store held no account at all.
C6_LoginHidesAccounts ==
  \A e1, e2 \in AuthEmails, p1, p2 \in AuthPasswords :
    (/\ Truthy(e1) /\ Truthy(p1) /\ Truthy(e2) /\ Truthy(p2)
     /\ ~HasAccount(e1)
     /\ WrongPassword(e2, p2))
    => /\ LoginResponse(e1, p1).status = 401
       /\ Observed(LoginResponse(e1, p1)) = Observed(LoginResponse(e2, p2))
       /\ Observed(LoginResponse(e2, p2))
            = Observed(LoginResponseIn({}, e2, p2))

C6_Witness ==
  /\ resp.op = "login"
  /\ resp.status = 401
  /\ WrongPassword(resp.req.email, resp.req.password)
  /\ \E e \in AuthEmails : Truthy(e) /\ ~HasAccount(e)

\* C7: no two users share a mailbox, and a register request with name, email
\* and password whose email names the mailbox of an existing user is
\* answered 409 and leaves table users as it was.
C7_EmailUnique ==
  /\ [](\A u1, u2 \in users : SameMailbox(u1.email, u2.email) => u1 = u2)
  /\ [][(/\ Request
         /\ resp'.op = "register"
         /\ Truthy(resp'.req.name)
         /\ Truthy(resp'.req.password)
         /\ Truthy(resp'.req.email)
         /\ HasAccount(resp'.req.email))
        => (resp'.status = 409 /\ users' = users)]_vars

C7_Witness ==
  /\ resp.op = "register"
  /\ resp.status = 409
  /\ \E u \in users :
       /\ SameMailbox(u.email, resp.req.email)
       /\ u.email # resp.req.email
  /\ Cardinality(users) = 1

\* C8: after a register answered 201, a login with the same email and
\* password is answered 200 and its token passes the middleware with the
\* identity register returned.
C8_RegisterLoginRoundTrip ==
  (resp.op = "register" /\ resp.status = 201) =>
    LET r == LoginResponse(resp.req.email, resp.req.password)
        auth == authenticate(Bearer(r.body.token))
    IN /\ r.status = 200
       /\ auth.status = 0
       /\ auth.user = resp.body.user

(***************************************************************************)
(* Properties of the gate (SpecGate).                                      *)
(***************************************************************************)
\* the header is "Bearer <token>" and the token is a JWT signed with the
\* server's key, not expired, with the claims id, name and email
Acceptable(h) ==
  /\ h.scheme = "Bearer"
  /\ h.words = 2
  /\ h.token.form = "object"
  /\ h.token.key = JwtSecret
  /\ now < h.token.exp
  /\ h.token.id # NoId
  /\ h.token.name \notin {Undefined, <<>>}
  /\ h.token.email \notin {Undefined, <<>>}

\* C5: a request to a protected route whose header is not acceptable is
\* answered 401 with a message only, and reads and changes nothing in the
\* store; with an acceptable header the handler runs as the user the token
\* names.
\* the step is a request to the route resp' names, sent with header h
RequestWith(h) ==
  \/ resp'.op = "me" /\ Me(h)
  \/ resp'.op = "list" /\ GetTasks(h)
  \/ resp'.op = "create" /\ \E body \in GateCreateBodies : CreateTask(h, body)
  \/ resp'.op = "update" /\ \E body \in GateUpdateBodies :
                               UpdateTask(h, resp'.id, body)
  \/ resp'.op = "delete" /\ DeleteTask(h, resp'.id, NoId)
  \/ resp'.op = "toggle" /\ toggleTaskCompletion(h, resp'.id, FALSE, NoId)

C5_GateBeforeHandler ==
  [][\A h \in Headers :
       RequestWith(h) =>
         IF Acceptable(h)
         THEN /\ resp'.status # 401
              /\ resp'.user = h.token.id
              /\ resp'.op = "me" => resp'.body.user = PublicUser(h.token)
         ELSE /\ resp'.status = 401
              /\ resp'.user = NoId
              /\ resp'.body = Message(resp'.body.message)
              /\ UNCHANGED <<users, tasks, uuids, dbClock, hist>>]_vars

C5_Witness ==
  /\ resp.op = "delete"
  /\ resp.status = 401
  /\ resp.body.message = "Invalid token"
  /\ now >= TokenLifetime
  /\ \E t \in tasks : t.id = resp.id

(***************************************************************************)
(* Properties of partial updates (SpecUpdate).                             *)
(***************************************************************************)
\* the step is an update answered 200
Updated == Request /\ resp'.op = "update" /\ resp'.status = 200

\* C3: an update answered 200 leaves each of title, description, due date,
\* priority and completed as stored when the body omits it.
C3_UpdatePartial ==
  [][Updated =>
       LET before == TaskRow(tasks, resp'.id)
           after == TaskRow(tasks', resp'.id)
           req == resp'.req
       IN /\ req.title = Undefined => after.title = before.title
          /\ req.description = Undefined =>
               after.description = before.description
          /\ req.dueDate = Undefined => after.due_date = before.due_date
          /\ req.priority = Undefined => after.priority = before.priority
          /\ req.completed = Undefined =>
               after.completed = before.completed]_vars

\* C4: an update answered 200 whose body has dueDate "" stores no due date,
\* returns the task without one and leaves title, description, priority and
\* completed as stored when the body omits them; the due date then stays
\* absent until an update gives a date; and a list shows for every task the
\* due date that is stored.
C4_EmptyDueDateClears ==
  /\ [][(Updated /\ resp'.req.dueDate = <<>>) =>
          LET before == TaskRow(tasks, resp'.id)
              after == TaskRow(tasks', resp'.id)
              req == resp'.req
          IN /\ after.due_date = Null
             /\ resp'.body.rows = <<Returning(after)>>
             /\ resp'.body.rows[1].dueDate = Null
             /\ req.title = Undefined => after.title = before.title
             /\ req.description = Undefined =>
                  after.description = before.description
             /\ req.priority = Undefined => after.priority = before.priority
             /\ req.completed = Undefined =>
                  after.completed = before.completed
             /\ after.id = before.id
             /\ after.user_id = before.user_id
             /\ after.created_at = before.created_at]_vars
  /\ [][\A t \in tasks :
          (/\ t.due_date = Null
           /\ ~(Updated /\ resp'.id = t.id /\ Truthy(resp'.req.dueDate)))
          => \A r \in tasks' : r.id = t.id => r.due_date = Null]_vars
  /\ [](resp.op = "list" /\ resp.status = 200 =>
          \A i \in 1..Len(resp.body.rows) :
            \E t \in tasks :
              /\ t.id = resp.body.rows[i].id
              /\ (t.due_date = Null <=> resp.body.rows[i].dueDate = Null))

C4_Witness ==
  /\ resp.op = "update"
  /\ resp.status = 200
  /\ resp.req.dueDate = <<>>
  /\ resp.body.rows[1].dueDate = Null
  /\ resp.body.rows[1].description = <<"d">>
  /\ resp.body.rows[1].priority = <<"high">>

(***************************************************************************)
(* Properties of failed requests (SpecErrors).                             *)
(***************************************************************************)
ErrorStatuses == {400, 401, 404, 409, 500}

Missing(v) == v \in {Undefined, Null, <<>>}

\* the status is the one of the class the failure belongs to
ClassMatches(r) ==
  CASE r.status = 400 ->
         \/ r.op = "register" /\ (\/ Missing(r.req.name)
                                  \/ Missing(r.req.email)
                                  \/ Missing(r.req.password))
         \/ r.op = "login" /\ (Missing(r.req.email) \/ Missing(r.req.password))
         \/ r.op = "create" /\ Missing(r.req.title)
    [] r.status = 401 ->
         IF r.op = "login"
         THEN ~\E u \in users :
                 /\ SameMailbox(u.email, r.req.email)
                 /\ u.password = BcryptHash(r.req.password)
         ELSE /\ r.op \in {"me", "list", "create", "update", "delete", "toggle"}
              /\ r.user = NoId
    [] r.status = 404 ->
         /\ r.op \in {"update", "delete", "toggle"}
         /\ ~\E t \in tasks : t.id = r.id /\ t.user_id = r.user
    [] r.status = 409 -> r.op = "register" /\ HasAccount(r.req.email)
    [] r.status = 500 ->
         r.body.message \in {"Failed to create account", "Failed to login",
                             "Failed to load tasks", "Failed to create task",
                             "Failed to update task", "Failed to delete task",
                             "Failed to toggle task"}

\* C13: a request answered 400, 401, 404, 409 or 500 leaves tables users and
\* tasks as they were, its body holds a message and nothing else, and the
\* status is the one of the failure: 400 a required field missing, 401 no
\* valid token or wrong credentials, 404 no task of the caller with that id,
\* 409 the mailbox taken, 500 a statement the store rejected.
C13_ErrorsChangeNothing ==
  [][(Request /\ resp'.status \in ErrorStatuses) =>
       /\ users' = users
       /\ tasks' = tasks
       /\ resp'.body.message # ""
       /\ resp'.body = [EmptyBody EXCEPT !.message = resp'.body.message]
       /\ ClassMatches(resp')]_vars

C13_Witness ==
  /\ resp.op = "update"
  /\ resp.status = 500
  /\ resp.body.message = "Failed to update task"
  /\ \E t \in tasks : t.id = resp.id /\ t.user_id = resp.user
  /\ Cardinality(users) = 2

C14_TitleNonEmpty == \A t \in tasks : t.title \notin {Undefined, Null, <<>>}

\* C15: the priority of every stored task is one of low, medium, high.
C15_PriorityEnumerated ==
  \A t \in tasks : t.priority \in {<<"low">>, <<"medium">>, <<"high">>}

(***************************************************************************)
(* Properties of the grouping (SpecGroups).                                *)
(***************************************************************************)
\* the five groups of a rendered page, in the order they are shown
GroupsOf(v) ==
  <<v.groups.Today, v.groups.ThisWeek, v.groups.ThisMonth, v.groups.Later,
    v.groups.NoDate>>

\* positions in the page's array of the tasks that pass the status filter
PassStatus(v) ==
  {i \in 1..Len(v.tasks) :
     \/ v.filter = "all"
     \/ v.filter = "completed" /\ v.tasks[i].completed
     \/ v.filter = "pending" /\ ~v.tasks[i].completed}

\* the groups that hold the task at position i
GroupsHolding(v, i) ==
  {k \in 1..5 : \E j \in 1..Len(GroupsOf(v)[k]) : GroupsOf(v)[k][j].id = i}

\* C16: on every render, each task that passes the status filter is in
\* exactly one of the five groups, once, unchanged; the groups hold nothing
\* else, so their sizes sum to the number of tasks that pass.
C16_BucketsPartition ==
  [][RenderTasksPage =>
       LET v == view'
           G == GroupsOf(v)
       IN /\ \A i \in PassStatus(v) : Cardinality(GroupsHolding(v, i)) = 1
          /\ \A k \in 1..5 : \A j \in 1..Len(G[k]) :
               /\ G[k][j].id \in PassStatus(v)
               /\ G[k][j] = v.tasks[G[k][j].id]
               /\ \A j2 \in 1..Len(G[k]) : G[k][j2].id = G[k][j].id => j2 = j
          /\ Len(G[1]) + Len(G[2]) + Len(G[3]) + Len(G[4]) + Len(G[5])
               = Cardinality(PassStatus(v))]_vars

C16_Witness ==
  /\ view.page = "tasks"
  /\ view.filter = "pending"
  /\ Len(view.tasks) = 2
  /\ view.tasks[1].completed
  /\ Len(view.shown) = 1
  /\ Len(view.groups.Later) = 1
  /\ view.version = "vite-project"

\* the count of days of a calendar date
DayOf(date) == MakeDay(date[1], date[2] - 1, date[3])

\* the calendar date a due date text names
DueDay(task) == CHOOSE date \in CalendarDays : DateText(date) = task.dueDate

\* the same day of the next month, or that month's last day when it is
\* shorter
PlusOneMonth(date) ==
  LET y == IF date[2] = 12 THEN date[1] + 1 ELSE date[1]
      m == IF date[2] = 12 THEN 1 ELSE date[2] + 1
      d == IF date[3] > DaysInMonth(y, m) THEN DaysInMonth(y, m) ELSE date[3]
  IN <<y, m, d>>

\* the place in GroupsOf of the group the ranges give a task due on or after
\* today, or without due date
RangeOf(task, today) ==
  IF task.dueDate = Null THEN 5
  ELSE LET d == DayOf(DueDay(task))
           t == DayOf(today)
       IN IF d = t THEN 1
          ELSE IF d <= t + 7 THEN 2
          ELSE IF d <= DayOf(PlusOneMonth(today)) THEN 3
          ELSE 4

\* C17: on every render, a task due on or after today is in Today when due
\* today, in This Week when due within the 7 days after today, in This Month
\* when due after that and no later than one month after today, and in Later
\* when due after that; a task without due date is in No Date.
C17_BucketBoundaries ==
  [][(RenderTasksPage /\ view.version = "frontend") =>
       \A i \in PassStatus(view') :
         LET task == view'.tasks[i]
         IN (task.dueDate = Null \/ DayOf(DueDay(task)) >= DayOf(view'.today))
            => GroupsHolding(view', i) = {RangeOf(task, view'.today)}]_vars

\* C18: on every render, a task due before today is in none of Today, This
\* Week, This Month and Later.
C18_PastDueInNoRange ==
  [][(RenderTasksPage /\ view.version = "frontend") =>
       \A i \in PassStatus(view') :
         LET task == view'.tasks[i]
         IN (task.dueDate # Null /\ DayOf(DueDay(task)) < DayOf(view'.today))
            => GroupsHolding(view', i) \cap {1, 2, 3, 4} = {}]_vars

(***************************************************************************)
(* Properties of the search (SpecSearch).                                  *)
(***************************************************************************)
\* q occurs in s when letters are compared without regard to case
OccursIn(q, s) ==
  \E i \in 0..Len(s), j \in 0..Len(s) :
    /\ j - i = Len(q)
    /\ \A k \in 1..Len(q) : LowerChar(s[i + k]) = LowerChar(q[k])

\* the query occurs in the title or in the description of the task
Matches(query, task) ==
  \/ OccursIn(query, task.title)
  \/ task.description # Null /\ OccursIn(query, task.description)

\* the tasks at the given positions of the array, in the array's order
Kept(v, positions) == SelectSeq(v.tasks, LAMBDA t : t.id \in positions)

Blank(query) == \A k \in 1..Len(query) : query[k] = " "

\* C19 as stated: on every render with no priority filter, the tasks that
\* pass the search are, in the array's order, those whose title or
\* description holds the query, case disregarded; with an empty query they
\* are the whole array.
C19_SearchSubstring ==
  [][RenderTasksPage =>
       LET v == view'
       IN /\ v.passed
               = Kept(v, {i \in 1..Len(v.tasks) :
                            Matches(v.searchQuery, v.tasks[i])})
          /\ v.searchQuery = <<>> => v.passed = v.tasks]_vars

\* C19 amended: the same, but a query that is empty or holds only spaces
\* passes every task, whether or not a title or description holds it.
C19_SearchSubstringOrBlank ==
  [][RenderTasksPage =>
       LET v == view'
       IN /\ v.passed
               = Kept(v, {i \in 1..Len(v.tasks) :
                            \/ Blank(v.searchQuery)
                            \/ Matches(v.searchQuery, v.tasks[i])})
          /\ Blank(v.searchQuery) => v.passed = v.tasks]_vars

C19_Witness ==
  /\ view.page = "tasks"
  /\ view.searchQuery = <<"B">>
  /\ Len(view.tasks) = 2
  /\ Len(view.passed) = 1
  /\ view.passed[1].id = 2
  /\ view.passed[1].title = <<"a">>
  /\ view.passed[1].description = <<"x", "B">>

(***************************************************************************)
(* Properties of the dashboard (SpecDashboard).                            *)
(***************************************************************************)
\* the integer nearest to 100 * c / t, a half going up
RoundedPercent(c, t) == (200 * c + t) \div (2 * t)

\* C20: on every render, with completed and pending the counts of the tasks
\* that are and are not completed and total their sum, the percentage is
\* round(completed / total x 100), or 0 when total = 0; it is an integer
\* from 0 to 100; and the high-priority count is the number of tasks that
\* are of high priority and pending.
C20_CompletionPercent ==
  [][RenderDashboard =>
       LET v == view'
           done == Cardinality({i \in 1..Len(v.tasks) : v.tasks[i].completed})
           open == Cardinality({i \in 1..Len(v.tasks) : ~v.tasks[i].completed})
           total == done + open
       IN /\ v.stats.total = total
          /\ v.stats.completed = done
          /\ v.stats.pending = open
          /\ v.completionPercent
               = (IF total > 0 THEN RoundedPercent(done, total) ELSE 0)
          /\ v.completionPercent \in 0..100
          /\ v.stats.highPriority
               = Cardinality({i \in 1..Len(v.tasks) :
                                /\ v.tasks[i].priority = <<"high">>
                                /\ ~v.tasks[i].completed})]_vars

\* C21: on every render, the task chosen as next upcoming due, if any, is
\* pending, its due date is not before today and is the earliest of the due
\* dates of the pending tasks that are not before today; no pending task due
\* in the past is chosen; and due-today is the number of pending tasks whose
\* due date is today.
C21_NextUpcomingDue ==
  [][RenderDashboard =>
       LET v == view'
           todayTime == DayOf(v.today)
           pending == {i \in 1..Len(v.tasks) :
                         ~v.tasks[i].completed /\ v.tasks[i].dueDate # Null}
           upcoming == {i \in pending : DayOf(DueDay(v.tasks[i])) >= todayTime}
       IN /\ v.nextDueTask # <<>> =>
               LET chosen == v.nextDueTask[1]
               IN /\ ~chosen.completed
                  /\ DayOf(DueDay(chosen)) >= todayTime
                  /\ \A i \in upcoming : DayOf(DueDay(chosen)) <= DayOf(DueDay(v.tasks[i]))
          /\ v.dueToday
               = Cardinality({i \in pending : DayOf(DueDay(v.tasks[i])) = todayTime})]_vars

(***************************************************************************)
(* Properties of the client session (SpecSession, SpecSessionFair).        *)
(***************************************************************************)
SessionCleared(app) ==
  /\ app.authToken = NoToken
  /\ app.currentUser = NoUser
  /\ app.storedToken = NoToken
  /\ app.storedUser = NoUser

\* C22: the dashboard, tasks and calendar pages are shown only while a token
\* is held; with no token held and no session load in progress the login
\* page is shown and nothing else; and logout leaves no token and no user in
\* memory or in local storage.
C22_SessionGate ==
  /\ [](/\ view.app.content \in {"dashboard", "tasks", "calendar"}
             => view.app.authToken # NoToken
        /\ view.app.authToken = NoToken /\ ~view.app.isLoadingSession
             => view.app.screen = "login" /\ view.app.content = "none")
  /\ [][handleLogout => SessionCleared(view'.app)]_vars

\* logout has been pressed during a session load: the shell is still shown,
\* around no page
C22_Witness ==
  /\ view.app.authToken = NoToken
  /\ view.app.isLoadingSession
  /\ view.app.screen = "shell"
  /\ view.app.content = "none"
  /\ view.app.currentView \in {"dashboard", "tasks", "calendar"}

\* C23: a page load that finds a token in local storage asks /auth/me about
\* it, whether or not a user is stored with it; and when the token found is
\* one the server rejects, the token and the user are eventually gone from
\* memory and storage and the login page is shown.
C23_RevalidateOnLoad ==
  /\ [](view.app.mounting /\ view.app.storedToken # NoToken
          => view.app.storedToken \in view.app.fetches)
  /\ (view.app.mounting /\ view.app.storedToken # NoToken
         /\ JwtVerifyThrows(view.app.storedToken))
       ~> (SessionCleared(view.app) /\ view.app.screen = "login")

\* C28: a user is held in memory only if a token is held in memory, and
\* under auth_user in local storage only if a token is stored under
\* auth_token.
C28_UserOnlyWithToken ==
  /\ view.app.currentUser # NoUser => view.app.authToken # NoToken
  /\ view.app.storedUser # NoUser => view.app.storedToken # NoToken

(***************************************************************************)
(* Properties of the tasks page and the server (SpecClient, SpecOrder).    *)
(***************************************************************************)
\* C24: on every render, in each group shown, a task comes before the tasks
\* created earlier than it.
C24_GroupsNewestFirst ==
  [][RenderTasksPage =>
       \A k \in 1..5 :
         LET g == GroupsOf(view')[k]
         IN \A i \in 1..Len(g), j \in 1..Len(g) :
              i < j => g[i].createdAt > g[j].createdAt]_vars

\* no request waits for the server and no response for the page
Quiet == view.calls = {} /\ view.replies = {}

\* C27: when no request and no response is in flight, every task the page
\* holds is equal to the record the server stores under its id.
C27_ClientConverges ==
  Quiet => \A i \in 1..Len(view.tasks) :
             \E t \in tasks : Returning(t) = view.tasks[i]

\* the server handles a form update
FormUpdateHandled(call) == call.op = "update" /\ ServerHandles(call)

\* C29: a form update carries no completed field, the server handling it
\* leaves the completed flag of every task as it was, and so the flag of a
\* task, false when created, is true exactly after an odd number of toggles.
C29_FormUpdateKeepsCompleted ==
  /\ [](\A call \in view.calls :
          call.op = "update" => call.body.completed = Undefined)
  /\ [][\A call \in view.calls :
          FormUpdateHandled(call)
            => \A t \in tasks : \E u \in tasks' :
                 u.id = t.id /\ u.completed = t.completed]_vars
  /\ [](\A t \in tasks : t.completed = (hist[t.id].n % 2 = 1))

\* a form update has been handled after a toggle the page has not yet heard
\* of
C29_Witness ==
  /\ resp.op = "update"
  /\ resp.status = 200
  /\ \E t \in tasks : t.id = resp.id /\ t.completed /\ hist[t.id].n = 1
  /\ \E reply \in view.replies :
       reply.call.op = "toggle" /\ reply.call.id = resp.id
  /\ \E i \in 1..Len(view.tasks) :
       view.tasks[i].id = resp.id /\ ~view.tasks[i].completed

\* C30: when the server handles with success a form update whose
\* description is empty, the request carries description null and the stored
\* description stays as it was; when its due date is empty, the stored due
\* date becomes absent.
C30_DescriptionNotCleared ==
  [][\A call \in view.calls :
       FormUpdateHandled(call) /\ resp'.status = 200
         => \A t \in tasks : \A u \in tasks' :
              t.id = call.id /\ u.id = call.id
                => /\ call.form.description = <<>>
                        => /\ call.body.description = Null
                           /\ u.description = t.description
                   /\ call.form.dueDate = <<>> => u.due_date = Null]_vars

\* a form update with both fields empty has been handled, the page still
\* holding the task with the due date it had: the description is kept, the
\* due date is gone
C30_Witness ==
  /\ resp.op = "update"
  /\ resp.status = 200
  /\ resp.req.description = Null
  /\ resp.req.dueDate = Null
  /\ \E t \in tasks :
       t.id = resp.id /\ t.description = <<"d">> /\ t.due_date = Null
  /\ \E i \in 1..Len(view.tasks) :
       /\ view.tasks[i].id = resp.id
       /\ view.tasks[i].dueDate # Null
       /\ view.tasks[i].description = <<"d">>

(***************************************************************************)
(* Properties of the tokens handed out (SpecAuth).                         *)
(***************************************************************************)
\* C26: the token a register answered 201 or a login answered 200 returns
\* passes the authenticate middleware as long as it has not expired, and
\* its payload has an id, a name and an email that are not empty.
C26_IssuedTokenAccepted ==
  (resp.op \in {"register", "login"} /\ resp.status \in {200, 201}
     /\ now < resp.body.token.exp)
    => /\ authenticate(Bearer(resp.body.token)).status = 0
       /\ resp.body.token.id # NoId
       /\ Truthy(resp.body.token.name)
       /\ Truthy(resp.body.token.email)

(***************************************************************************)
(* Properties of register under concurrency (SpecRace).                    *)
(***************************************************************************)
\* the requests answered whose fields were all given
Registered ==
  {n \in 1..MaxRegisters :
     view.registers[n].pc = "done" /\ view.registers[n].status # 400}

\* C25: of the register requests whose emails normalize to the same text,
\* one is answered 201 and creates the user and every other one is answered
\* 409, whatever the interleaving; no answer has another status and no two
\* user rows have the same email.
C25_RegisterAtomic ==
  /\ \A n \in Registered : view.registers[n].status \in {201, 409}
  /\ \A n \in Registered :
       Cardinality({m \in Registered :
                      /\ normalizeEmail(view.registers[m].email)
                           = normalizeEmail(view.registers[n].email)
                      /\ view.registers[m].status = 201}) = 1
  /\ \A u \in users : \A w \in users : u.email = w.email => u = w

====
